---- MODULE Spec2Model ----
(***************************************************************************)
(* Model of the smart-code-evaluator backend: the structural analyzer      *)
(* (analyzer.py), the mistake detector (mistakes.py), the AI-pattern       *)
(* detector (ai_detector.py), the feedback generator (feedback.py), the    *)
(* request handlers (app.py) and the history store (history_manager.py).   *)
(*                                                                         *)
(* Source text is modelled as sequences of one-character strings, so that  *)
(* strip(), split(), startswith() and the substring test `in` are computed *)
(* the way Python computes them.  The complexity labels are written in     *)
(* ASCII: "O(n^2)" stands for the label O(n-squared), "O(n^3)" for         *)
(* O(n-cubed) and "O(2^n)" for O(2-to-the-n) of analyzer.py.               *)
(***************************************************************************)
EXTENDS Integers, Sequences, FiniteSets, TLC

VARIABLES
    language,        \* 'python' | 'c' | 'cpp'   (argument of analyze_code)
    code_lines,      \* the cleaned lines        (argument of analyze_code)
    pc,              \* position of the request in the pipeline
    idx,             \* index of the next line (python) or token (C/C++)
    analysis,        \* the `analysis` dictionary being filled in
    stack,           \* _analyze_python: indentation stack
    loop_depth,      \* both paths: active loop-depth counter
    function_depth,  \* both paths: function-depth counter
    in_loop,         \* both paths: the in_loop flag
    brace_count,     \* _analyze_c_cpp: brace counter
    tokens,          \* _analyze_c_cpp: the token list
    combined_code,   \* _analyze_c_cpp: combined_code
    tk,              \* _tokenize_c_code: its locals
    metrics,         \* the record returned by analyze_code
    mistakes,        \* the list returned by detect_mistakes
    heap,            \* the list objects created by detect_mistakes calls
    self_mistakes,   \* detector.mistakes: the list the shared instance holds
    t_req,           \* per thread: the arguments of its detect_mistakes call
    t_pc,            \* per thread: its position inside detect_mistakes
    t_ret,           \* per thread: the list object its call returned
    scores,          \* detect_ai_patterns: the four computed sub-scores
    raises,          \* detect_ai_patterns: which sub-score computation raises
    ai_pc,           \* detect_ai_patterns: "call" or "done"
    results,         \* the dictionary returned by detect_ai_patterns
    report,          \* the report returned by generate_feedback
    ai_mismatch,     \* the value of _calculate_complexity_mismatch
    raise_at,        \* analyze_code: index of the first element of
                     \* code_lines that is not a str (0: all are)
    hash_seed,       \* the interpreter's string-hash order (set per process)
    returned_texts,  \* the finding lists returned so far, as rendered text
    req,             \* request handler: the request being served
    req_pc,          \* request handler: its position
    resp,            \* request handler: the HTTP status of the response
    stages,          \* request handler: the stages run for this request
    history_len,     \* number of analyses saved to history
    self_skill_level,\* feedback_gen.skill_level of the shared instance
    g_req,           \* per thread: the arguments of its generate_feedback
    g_pc,            \* per thread: its position inside generate_feedback
    g_out,           \* per thread: the skill levels its invocation used
    history_file,    \* the content of data/history.json
    history_call     \* the last HistoryManager call and what it returned

pipelineVars == <<language, code_lines, raise_at, pc, idx, analysis, stack, loop_depth,
                  function_depth, in_loop, brace_count, tokens, combined_code,
                  tk, metrics, mistakes>>
concVars == <<heap, self_mistakes, t_req, t_pc, t_ret>>
aiVars   == <<scores, raises, ai_pc, results>>
feedbackVars == <<report, ai_mismatch>>
repeatVars == <<hash_seed, returned_texts>>
requestVars == <<req, req_pc, resp, stages, history_len>>
sharedFeedbackVars == <<self_skill_level, g_req, g_pc, g_out>>
historyVars == <<history_file, history_call>>
lateVars == <<sharedFeedbackVars, historyVars>>
otherVars == <<repeatVars, requestVars, lateVars>>

vars == <<pipelineVars, concVars, aiVars, feedbackVars, otherVars>>

----------------------------------------------------------------------------
(* Text primitives (Python str methods)                                    *)

Max(a, b) == IF a >= b THEN a ELSE b
Min(a, b) == IF a <= b THEN a ELSE b

\* str.isspace() for one character
IsSpace(c) == c \in {" ", "\t", "\n"}

\* n space characters
Spaces(n) == [k \in 1..n |-> " "]

\* len(line) - len(line.lstrip())
RECURSIVE LeadingSpaces(_)
LeadingSpaces(line) ==
    IF line = <<>> \/ ~IsSpace(Head(line)) THEN 0
    ELSE 1 + LeadingSpaces(Tail(line))

\* number of trailing whitespace characters
RECURSIVE TrailingSpaces(_)
TrailingSpaces(line) ==
    IF line = <<>> \/ ~IsSpace(line[Len(line)]) THEN 0
    ELSE 1 + TrailingSpaces(SubSeq(line, 1, Len(line) - 1))

\* line.lstrip()
LStrip(line) == SubSeq(line, LeadingSpaces(line) + 1, Len(line))

\* line.strip()
Strip(line) ==
    LET l == LStrip(line) IN SubSeq(l, 1, Len(l) - TrailingSpaces(l))

\* line.startswith(prefix)
StartsWith(line, prefix) ==
    /\ Len(line) >= Len(prefix)
    /\ SubSeq(line, 1, Len(prefix)) = prefix

\* sub in line   (substring test)
Contains(line, sub) ==
    \E i \in 1..(Len(line) - Len(sub) + 1) :
        SubSeq(line, i, i + Len(sub) - 1) = sub

\* line.split(): the whitespace-delimited words
RECURSIVE SplitFrom(_, _, _)
SplitFrom(line, i, cur) ==
    IF i > Len(line)
    THEN IF cur = <<>> THEN <<>> ELSE <<cur>>
    ELSE IF IsSpace(line[i])
         THEN IF cur = <<>> THEN SplitFrom(line, i + 1, <<>>)
              ELSE <<cur>> \o SplitFrom(line, i + 1, <<>>)
         ELSE SplitFrom(line, i + 1, Append(cur, line[i]))

Split(line) == SplitFrom(line, 1, <<>>)

\* line.split('=')[0]
RECURSIVE BeforeChar(_, _)
BeforeChar(line, c) ==
    IF line = <<>> \/ Head(line) = c THEN <<>>
    ELSE <<Head(line)>> \o BeforeChar(Tail(line), c)

----------------------------------------------------------------------------
(* Keywords                                                                *)

kw_for   == <<"f", "o", "r">>
kw_while == <<"w", "h", "i", "l", "e">>
kw_if    == <<"i", "f">>
kw_else  == <<"e", "l", "s", "e">>
kw_elif  == <<"e", "l", "i", "f">>
kw_def   == <<"d", "e", "f">>
kw_int   == <<"i", "n", "t">>
kw_void  == <<"v", "o", "i", "d">>
kw_float == <<"f", "l", "o", "a", "t">>
kw_double == <<"d", "o", "u", "b", "l", "e">>
kw_char  == <<"c", "h", "a", "r">>
kw_bool  == <<"b", "o", "o", "l">>

loop_keywords        == <<kw_for, kw_while>>
conditional_keywords == <<kw_if, kw_else, kw_elif>>
function_keywords    == {kw_def, kw_void, kw_int, kw_float, kw_double,
                         kw_char, kw_bool}

SeqRange(s) == {s[i] : i \in 1..Len(s)}

----------------------------------------------------------------------------
(* analyzer.py helpers                                                     *)

\* CodeAnalyzer._get_indent_level
get_indent_level(line) == LeadingSpaces(line) \div 4

\* CodeAnalyzer._is_keyword_in_line
is_keyword_in_line(line, keyword) ==
    LET words == Split(Strip(line))
    IN  \E i \in 1..Len(words) : words[i] = keyword

\* mutant: the depth thresholds counted from one level too low
estimate_complexity_shifted(loops, nested_loops, max_depth) ==
    IF loops = 0 THEN "O(1)"
    ELSE IF nested_loops = 0 THEN "O(n)"
    ELSE IF max_depth = 1 THEN "O(n^2)"
    ELSE IF max_depth = 2 THEN "O(n^3)"
    ELSE "O(2^n)"

\* CodeAnalyzer._estimate_complexity
estimate_complexity(loops, nested_loops, max_depth) ==
    IF loops = 0 THEN "O(1)"
    ELSE IF nested_loops = 0 THEN "O(n)"
    ELSE IF max_depth = 2 THEN "O(n^2)"
    ELSE IF max_depth = 3 THEN "O(n^3)"
    ELSE "O(2^n)"

\* CodeAnalyzer._create_analysis_template (error: is the 'error' key set)
create_analysis_template ==
    [total_lines |-> 0, loops |-> 0, nested_loops |-> 0, conditionals |-> 0,
     conditions_in_loops |-> 0, functions |-> 0, variables |-> 0,
     total_statements |-> 0, max_nesting_depth |-> 0, complexity |-> "O(1)",
     error |-> FALSE]

\* mutant: the template returned without the 'error' key
empty_analysis_result_noflag == create_analysis_template

\* CodeAnalyzer._empty_analysis_result
empty_analysis_result == [create_analysis_template EXCEPT !.error = TRUE]

----------------------------------------------------------------------------
(* CodeAnalyzer._analyze_python, one iteration of the loop over the lines  *)

\* the de-indentation loop: while stack and indent_level < stack[-1]
RECURSIVE pop_blocks(_, _, _, _)
pop_blocks(stk, ld, fd, indent_level) ==
    IF stk # <<>> /\ indent_level < stk[Len(stk)]
    THEN pop_blocks(SubSeq(stk, 1, Len(stk) - 1),
                    IF ld > 0 THEN ld - 1 ELSE ld,
                    IF fd > 0 THEN fd - 1 ELSE fd,
                    indent_level)
    ELSE [stack |-> stk, loop_depth |-> ld, function_depth |-> fd]

\* the loop keyword check: any keyword of loop_keywords stands in the line
has_loop_keyword(line) ==
    \E k \in 1..Len(loop_keywords) : is_keyword_in_line(line, loop_keywords[k])

\* the conditional keyword check
has_conditional_keyword(line) ==
    \E k \in 1..Len(conditional_keywords) :
        is_keyword_in_line(line, conditional_keywords[k])

\* mutant: the nesting test taken before the increment's value (off by one)
py_is_nested_offbyone(ld) == ld >= 1

\* "Check for nesting": if loop_depth > 1 (loop_depth already incremented)
py_is_nested(ld) == ld > 1

\* the variable-declaration test of _analyze_python
py_is_variable(line) ==
    /\ Contains(line, <<"=">>)
    /\ ~ \E kw \in {kw_if, kw_for, kw_while, kw_def} : Contains(line, kw)
    /\ LET left_side == Strip(BeforeChar(line, "="))
       IN  left_side # <<>> /\ ~StartsWith(left_side, <<"#">>)

\* the body of the for loop of _analyze_python for one non-blank line;
\* s holds analysis, stack, loop_depth, function_depth, in_loop
analyze_python_line(line, s) ==
    LET a0 == [s.analysis EXCEPT !.total_lines = @ + 1]
        indent_level == get_indent_level(line)
        p  == pop_blocks(s.stack, s.loop_depth, s.function_depth, indent_level)
    IN
    IF StartsWith(Strip(line), <<"d", "e", "f", " ">>)
    THEN [analysis |-> [a0 EXCEPT !.functions = @ + 1],
          stack |-> Append(p.stack, indent_level),
          loop_depth |-> p.loop_depth,
          function_depth |-> 1,
          in_loop |-> s.in_loop]
    ELSE
    LET isLoop == has_loop_keyword(line)
        ld1 == IF isLoop THEN p.loop_depth + 1 ELSE p.loop_depth
        a1 == IF ~isLoop THEN a0
              ELSE IF py_is_nested(ld1)
                   THEN [a0 EXCEPT !.loops = @ + 1,
                                   !.nested_loops = @ + 1,
                                   !.max_nesting_depth = Max(@, ld1)]
                   ELSE [a0 EXCEPT !.loops = @ + 1]
        in1 == s.in_loop \/ isLoop
        st1 == IF isLoop THEN Append(p.stack, indent_level) ELSE p.stack
        isCond == has_conditional_keyword(line)
        a2 == IF ~isCond THEN a1
              ELSE IF in1
                   THEN [a1 EXCEPT !.conditionals = @ + 1,
                                   !.conditions_in_loops = @ + 1]
                   ELSE [a1 EXCEPT !.conditionals = @ + 1]
        st2 == IF isCond THEN Append(st1, indent_level) ELSE st1
        a3 == IF py_is_variable(line)
              THEN [a2 EXCEPT !.variables = @ + 1] ELSE a2
    IN [analysis |-> a3, stack |-> st2, loop_depth |-> ld1,
        function_depth |-> p.function_depth, in_loop |-> in1]

----------------------------------------------------------------------------
(* CodeAnalyzer._tokenize_c_code                                           *)

\* mutant: the // branch reaches `continue` without having moved i
skip_to_newline_stuck(code, i) == i

\* "Skip to end of line": first position >= i holding a newline, else len+1
RECURSIVE skip_to_newline(_, _)
skip_to_newline(code, i) ==
    IF i > Len(code) \/ code[i] = "\n" THEN i
    ELSE skip_to_newline(code, i + 1)

Flush(toks, cur) == IF cur # <<>> THEN Append(toks, cur) ELSE toks

special_chars == {"{", "}", "(", ")", ";", "=", "<", ">", "!", "&", "|",
                  "+", "-", "*", "/", "%"}

\* one iteration of the while loop of _tokenize_c_code; t holds i (1-based),
\* tokens, current, in_string, string_char, in_comment
tokenize_step(code, t) ==
    LET i == t.i  char == code[t.i] IN
    IF char \in {"\"", "'"} /\ ~t.in_comment
    THEN IF ~t.in_string
         THEN [t EXCEPT !.i = i + 1, !.tokens = Flush(@, t.current),
                        !.current = <<char>>, !.in_string = TRUE,
                        !.string_char = char]
         ELSE IF char = t.string_char /\ (i = 1 \/ code[i - 1] # "\\")
              THEN [t EXCEPT !.i = i + 1,
                             !.tokens = Append(@, Append(t.current, char)),
                             !.current = <<>>, !.in_string = FALSE]
              ELSE [t EXCEPT !.i = i + 1, !.current = Append(@, char)]
    ELSE IF ~t.in_string
    THEN \* the comment branch: taken for every character outside a string
         LET has2 == i + 1 <= Len(code)
             two  == IF has2 THEN SubSeq(code, i, i + 1) ELSE <<>>
         IN
         IF has2 /\ two = <<"/", "/">>
         THEN [t EXCEPT !.i = skip_to_newline(code, i)]
         ELSE IF has2 /\ two = <<"/", "*">>
         THEN [t EXCEPT !.i = i + 2, !.in_comment = TRUE]
         ELSE IF has2 /\ two = <<"*", "/">> /\ t.in_comment
         THEN [t EXCEPT !.i = i + 2, !.in_comment = FALSE]
         ELSE [t EXCEPT !.i = i + 1]
    ELSE IF ~t.in_string /\ char \in special_chars
    THEN [t EXCEPT !.i = i + 1,
                   !.tokens = Append(Flush(@, t.current), <<char>>),
                   !.current = <<>>]
    ELSE IF IsSpace(char)
    THEN [t EXCEPT !.i = i + 1, !.tokens = Flush(@, t.current),
                   !.current = <<>>]
    ELSE [t EXCEPT !.i = i + 1, !.current = Append(@, char)]

\* the locals of _tokenize_c_code before the loop
tokenize_init ==
    [i |-> 1, tokens |-> <<>>, current |-> <<>>, in_string |-> FALSE,
     string_char |-> "", in_comment |-> FALSE]

\* ' '.join(code_lines)
RECURSIVE JoinLines(_)
JoinLines(lines) ==
    IF lines = <<>> THEN <<>>
    ELSE IF Len(lines) = 1 THEN lines[1]
    ELSE lines[1] \o <<" ">> \o JoinLines(Tail(lines))

----------------------------------------------------------------------------
(* CodeAnalyzer._analyze_c_cpp, one iteration of the loop over the tokens  *)

\* "Skip pointers": first position >= j whose token is not '*'
RECURSIVE skip_pointers(_, _)
skip_pointers(toks, j) ==
    IF j <= Len(toks) /\ toks[j] = <<"*">> THEN skip_pointers(toks, j + 1)
    ELSE j

\* the parenthesis-matching loop: position after the matching ')'
RECURSIVE match_parens(_, _, _)
match_parens(toks, k, paren_count) ==
    IF k <= Len(toks) /\ paren_count > 0
    THEN match_parens(toks, k + 1,
                      IF toks[k] = <<"(">> THEN paren_count + 1
                      ELSE IF toks[k] = <<")">> THEN paren_count - 1
                      ELSE paren_count)
    ELSE k

\* the function-definition look-ahead from the keyword at position i
c_is_function_definition(toks, i) ==
    LET j == skip_pointers(toks, i + 1) IN
    /\ j <= Len(toks)
    /\ Contains(toks[j], <<"(">>)
    /\ LET k == match_parens(toks, j + 1, 1)
       IN  k <= Len(toks) /\ toks[k] = <<"{">>

\* mutant: the test taken on the incremented depth
c_is_nested_incremented(ld) == ld + 1 > 0

\* "Check if we're inside another loop": if loop_depth > 0 (before increment)
c_is_nested(ld) == ld > 0

\* the body of the while loop of _analyze_c_cpp for the token at position i;
\* s holds analysis, brace_count, loop_depth, function_depth, in_loop
analyze_c_token(toks, i, s) ==
    LET token == toks[i] a == s.analysis IN
    IF token = <<"{">>
    THEN [s EXCEPT !.brace_count = @ + 1]
    ELSE IF token = <<"}">>
    THEN LET bc == s.brace_count - 1 IN
         [s EXCEPT !.brace_count = bc,
                   !.loop_depth = IF bc < @ THEN Max(0, @ - 1) ELSE @,
                   !.function_depth = IF bc < @ THEN Max(0, @ - 1) ELSE @]
    ELSE IF token \in function_keywords
    THEN IF c_is_function_definition(toks, i)
         THEN [s EXCEPT !.analysis = [a EXCEPT !.functions = @ + 1],
                        !.function_depth = s.brace_count + 1]
         ELSE s
    ELSE IF token \in SeqRange(loop_keywords)
    THEN [s EXCEPT
            !.analysis =
                IF c_is_nested(s.loop_depth)
                THEN [a EXCEPT !.loops = @ + 1,
                               !.nested_loops = @ + 1,
                               !.max_nesting_depth = Max(@, s.loop_depth + 1)]
                ELSE [a EXCEPT !.loops = @ + 1],
            !.in_loop = TRUE,
            !.loop_depth = @ + 1]
    ELSE IF token = kw_if \/ token = kw_else
    THEN [s EXCEPT
            !.analysis =
                IF s.in_loop
                THEN [a EXCEPT !.conditionals = @ + 1,
                               !.conditions_in_loops = @ + 1]
                ELSE [a EXCEPT !.conditionals = @ + 1]]
    ELSE IF token = <<";">>
    THEN [s EXCEPT !.analysis = [a EXCEPT !.total_statements = @ + 1]]
    ELSE s

\* the variable count of _analyze_c_cpp ("Count variables (simple pattern)")
c_is_variable(line) ==
    /\ Contains(line, <<";">>)
    /\ Contains(line, <<"=">>)
    /\ ~ \E kw \in {kw_for, kw_while, kw_if} : Contains(line, kw)

c_count_variables(lines) ==
    Cardinality({n \in 1..Len(lines) : c_is_variable(lines[n])})

----------------------------------------------------------------------------
(* mistakes.py: the six rules of MistakeDetector                           *)

\* MistakeDetector.thresholds
max_nested_loops            == 2
max_conditions_per_function == 5
max_function_lines          == 50
\* mutant: the threshold one level higher
max_indentation_level_raised == 4 + 1
max_indentation_level       == 4
max_magic_numbers           == 3

\* A finding: its type and the values interpolated into its problem text
\* (num: the count or depth, name: the variable, line: the line number,
\* unique: the distinct magic numbers, of which min(5, |unique|) are shown)
Finding(type, num, name, line, unique) ==
    [type |-> type, num |-> num, name |-> name, line |-> line,
     unique |-> unique]

\* mutant: a depth equal to the threshold is reported too
check_nested_loops_inclusive(a) ==
    IF a.nested_loops > 0 /\ a.max_nesting_depth >= max_nested_loops
    THEN <<Finding("NESTED_LOOPS", a.max_nesting_depth, <<>>, 0, {})>>
    ELSE <<>>

\* _check_nested_loops: the findings it appends
check_nested_loops(a) ==
    IF a.nested_loops > 0 /\ a.max_nesting_depth > max_nested_loops
    THEN <<Finding("NESTED_LOOPS", a.max_nesting_depth, <<>>, 0, {})>>
    ELSE <<>>

\* _check_too_many_conditions
check_too_many_conditions(a) ==
    IF a.conditionals > max_conditions_per_function
    THEN <<Finding("TOO_MANY_CONDITIONS", a.conditionals, <<>>, 0, {})>>
    ELSE <<>>

\* _check_long_functions
check_long_functions(a) ==
    IF a.total_lines > max_function_lines /\ a.functions <= 1
    THEN <<Finding("LONG_FUNCTION", a.total_lines, <<>>, 0, {})>>
    ELSE <<>>

\* the lines skipped by _check_unused_variables_python
py_skip_patterns == {<<"d", "e", "f", " ">>, <<"f", "o", "r", " ">>, <<"w", "h", "i", "l", "e", " ">>, <<"i", "f", " ">>, <<"e", "l", "i", "f", " ">>, <<"e", "l", "s", "e", ":">>}

\* the candidate variable of one python line (<<>> when there is none)
py_candidate(line) ==
    LET stripped == Strip(line) IN
    IF \E kw \in py_skip_patterns : Contains(stripped, kw) THEN <<>>
    ELSE IF Contains(stripped, <<"=">>) /\ ~Contains(stripped, <<"=", "=">>)
    THEN LET left_side == Strip(BeforeChar(stripped, "=")) IN
         IF ~Contains(left_side, <<",">>) /\ ~Contains(left_side, <<" ">>)
         THEN <<left_side>> ELSE <<>>
    ELSE <<>>

\* the `variables` list of _check_unused_variables_python
RECURSIVE py_candidates(_)
py_candidates(lines) ==
    IF lines = <<>> THEN <<>>
    ELSE py_candidate(Head(lines)) \o py_candidates(Tail(lines))

\* f'{var} =' in line or f'{var}=' in line
py_is_declaration(line, var) ==
    Contains(line, var \o <<" ", "=">>) \/ Contains(line, var \o <<"=">>)

\* declared but never used: the scan of the lines for one python variable
py_is_unused(lines, var) ==
    LET decls == {n \in 1..Len(lines) : py_is_declaration(lines[n], var)} IN
    /\ decls # {}
    /\ LET first == CHOOSE n \in decls : \A m \in decls : n <= m IN
       ~ \E n \in (first + 1)..Len(lines) :
            Contains(lines[n], var) /\ ~py_is_declaration(lines[n], var)

\* one UNUSED_VARIABLE finding per flagged entry of the candidate list
RECURSIVE py_unused_findings(_, _)
py_unused_findings(lines, cands) ==
    IF cands = <<>> THEN <<>>
    ELSE (IF py_is_unused(lines, Head(cands))
          THEN <<Finding("UNUSED_VARIABLE", 0, Head(cands), 0, {})>>
          ELSE <<>>) \o py_unused_findings(lines, Tail(cands))

\* _check_unused_variables_python
check_unused_variables_python(lines) ==
    py_unused_findings(lines, py_candidates(lines))

\* str.replace(c, '')
RECURSIVE RemoveChar(_, _)
RemoveChar(line, c) ==
    IF line = <<>> THEN <<>>
    ELSE (IF Head(line) = c THEN <<>> ELSE <<Head(line)>>)
         \o RemoveChar(Tail(line), c)

c_type_patterns == {<<"i", "n", "t", " ">>, <<"f", "l", "o", "a", "t", " ">>, <<"d", "o", "u", "b", "l", "e", " ">>, <<"c", "h", "a", "r", " ">>}

\* the candidate variable of one C/C++ line (<<>> when there is none)
c_candidate(line) ==
    LET stripped == Strip(line) IN
    IF ~Contains(stripped, <<";">>) THEN <<>>
    ELSE IF \E ty \in c_type_patterns : Contains(stripped, ty)
    THEN LET parts == Split(RemoveChar(stripped, ";")) IN
         IF Len(parts) >= 2
         THEN LET var_name == parts[Len(parts)] IN
              IF Contains(var_name, <<"=">>)
              THEN <<BeforeChar(var_name, "=")>> ELSE <<var_name>>
         ELSE <<>>
    ELSE <<>>

RECURSIVE c_candidates(_)
c_candidates(lines) ==
    IF lines = <<>> THEN <<>>
    ELSE c_candidate(Head(lines)) \o c_candidates(Tail(lines))

\* f'{var};' or f'{var} =' or f'{var}=' in line_clean
c_is_declaration(line, var) ==
    LET line_clean == Strip(line) IN
    \/ Contains(line_clean, var \o <<";">>)
    \/ Contains(line_clean, var \o <<" ", "=">>)
    \/ Contains(line_clean, var \o <<"=">>)

c_is_unused(lines, var) ==
    LET decls == {n \in 1..Len(lines) : c_is_declaration(lines[n], var)} IN
    /\ decls # {}
    /\ LET first == CHOOSE n \in decls : \A m \in decls : n <= m IN
       ~ \E n \in (first + 1)..Len(lines) :
            Contains(Strip(lines[n]), var) /\ ~c_is_declaration(lines[n], var)
    /\ Len(var) > 1

RECURSIVE c_unused_findings(_, _)
c_unused_findings(lines, cands) ==
    IF cands = <<>> THEN <<>>
    ELSE (IF c_is_unused(lines, Head(cands))
          THEN <<Finding("UNUSED_VARIABLE", 0, Head(cands), 0, {})>>
          ELSE <<>>) \o c_unused_findings(lines, Tail(cands))

\* _check_unused_variables_c_cpp
check_unused_variables_c_cpp(lines) ==
    c_unused_findings(lines, c_candidates(lines))

\* _check_unused_variables
check_unused_variables(lines, lang) ==
    IF lang = "python" THEN check_unused_variables_python(lines)
    ELSE check_unused_variables_c_cpp(lines)

\* mutant: the leading spaces taken as the level (division by 4 forgotten)
md_indent_level_spaces(line) == LeadingSpaces(line)

\* the indentation level _check_deep_indentation computes for a line
md_indent_level(line) == LeadingSpaces(line) \div 4

\* _check_deep_indentation
check_deep_indentation(lines, lang) ==
    IF lang # "python" THEN <<>>
    ELSE
    LET nonblank == {n \in 1..Len(lines) : Strip(lines[n]) # <<>>}
        levels == {md_indent_level(lines[n]) : n \in nonblank}
        max_indent == IF \E l \in levels : l > 0
                      THEN CHOOSE l \in levels : \A k \in levels : k <= l
                      ELSE 0
        line_number ==
            IF max_indent = 0 THEN 0
            ELSE CHOOSE n \in nonblank :
                    /\ md_indent_level(lines[n]) = max_indent
                    /\ \A m \in nonblank :
                          md_indent_level(lines[m]) = max_indent => n <= m
    IN IF max_indent > max_indentation_level
       THEN <<Finding("DEEP_INDENTATION", max_indent, <<>>, line_number, {})>>
       ELSE <<>>

Digits == {"0", "1", "2", "3", "4", "5", "6", "7", "8", "9"}

\* _is_number: float(s) succeeds.  Modelled for plain decimal literals: an
\* optional sign, digits with at most one point, at least one digit
\* (exponents, inf, nan and digit separators are not in the input alphabet).
is_number(word) ==
    LET body == IF word # <<>> /\ Head(word) \in {"+", "-"}
                THEN Tail(word) ELSE word
        points == {i \in 1..Len(body) : body[i] = "."}
    IN  /\ \A i \in 1..Len(body) : body[i] \in Digits \cup {"."}
        /\ Cardinality(points) <= 1
        /\ \E i \in 1..Len(body) : body[i] \in Digits

\* mutant: the allow-list without its last entry
common_numbers_short == {<<"0">>, <<"1">>, <<"2">>, <<"1", "0">>, <<"1", "0", "0">>}

\* the allow-list of _check_magic_numbers
common_numbers == {<<"0">>, <<"1">>, <<"2">>, <<"1", "0">>, <<"1", "0", "0">>, <<"1", "0", "0", "0">>}

\* the words of one line that are numbers outside the allow-list
RECURSIVE FilterMagic(_)
FilterMagic(words) ==
    IF words = <<>> THEN <<>>
    ELSE (IF is_number(Head(words)) /\ Head(words) \notin common_numbers
          THEN <<Head(words)>> ELSE <<>>) \o FilterMagic(Tail(words))

\* the `magic_numbers` list of _check_magic_numbers
RECURSIVE magic_numbers(_)
magic_numbers(lines) ==
    IF lines = <<>> THEN <<>>
    ELSE FilterMagic(Split(Head(lines))) \o magic_numbers(Tail(lines))

\* mutant: one finding appended per magic number instead of one per run
RECURSIVE magic_findings_each(_, _)
magic_findings_each(magic, n) ==
    IF n = 0 THEN <<>>
    ELSE Append(magic_findings_each(magic, n - 1),
                Finding("MAGIC_NUMBERS", Len(magic), <<>>, 0, {magic[n]}))

check_magic_numbers_each(lines, lang) ==
    LET magic == magic_numbers(lines) IN
    IF Len(magic) > max_magic_numbers
    THEN magic_findings_each(magic, Len(magic))
    ELSE <<>>

\* _check_magic_numbers
check_magic_numbers(lines, lang) ==
    LET magic == magic_numbers(lines) IN
    IF Len(magic) > max_magic_numbers
    THEN <<Finding("MAGIC_NUMBERS", Len(magic), <<>>, 0, SeqRange(magic))>>
    ELSE <<>>

\* MistakeDetector.detect_mistakes, run without interference
detect_mistakes(lines, lang, a) ==
    IF lines = <<>> THEN <<>>
    ELSE check_nested_loops(a)
         \o check_too_many_conditions(a)
         \o check_long_functions(a)
         \o check_unused_variables(lines, lang)
         \o check_deep_indentation(lines, lang)
         \o check_magic_numbers(lines, lang)

\* list(set(magic_numbers)): the elements of the set in the iteration order
\* of the running interpreter.  str hashes are randomized per process, so the
\* order is fixed within a process and differs between processes; `order`
\* lists the number tokens in the order of the process.
RECURSIVE set_to_list(_, _)
set_to_list(S, order) ==
    IF order = <<>> THEN <<>>
    ELSE (IF Head(order) \in S THEN <<Head(order)>> ELSE <<>>)
         \o set_to_list(S, Tail(order))

\* the values interpolated into the 'problem' text of a finding; for
\* MAGIC_NUMBERS the list is list(set(magic_numbers))[:5]
problem_text(f, order) ==
    LET listed == set_to_list(f.unique, order)
    IN  [type |-> f.type, num |-> f.num, name |-> f.name, line |-> f.line,
         shown |-> SubSeq(listed, 1, Min(5, Len(listed)))]

\* a returned finding list as the caller sees it
finding_texts(m, order) == [i \in 1..Len(m) |-> problem_text(m[i], order)]

----------------------------------------------------------------------------
(* Inputs                                                                  *)

\* bounds of the enumerated inputs
MaxLines  == 4      \* lines per input
MaxIndent == 2      \* deepest indentation level of an enumerated python line

\* python line bodies
py_for == <<"f", "o", "r", " ", "n", " ", "i", "n", " ", "x", ":">>
py_if  == <<"i", "f", " ", "s", ":">>
py_asg == <<"s", "=", "0">>
py_def == <<"d", "e", "f", " ", "f", "(", ")", ":">>

PyBodies == {py_for, py_if, py_asg, py_def}
PyLines  == {Spaces(4 * lvl) \o b : lvl \in 0..MaxIndent, b \in PyBodies}

\* C/C++ lines.  _tokenize_c_code yields tokens only between quotes, so the
\* bank holds a quote line and the words that become tokens after it.
c_quote  == <<"\"">>
c_for    == <<"f", "o", "r">>
c_lbrace == <<"{">>
c_rbrace == <<"}">>
c_if     == <<"i", "f">>
c_semi   == <<";">>
c_func   == <<"i", "n", "t", " ", "(", " ", ")", " ", "{">>
c_forhdr == <<"f", "o", "r", " ", "(", ";", ";", ")", " ", "{">>

CLines == {c_quote, c_for, c_lbrace, c_rbrace, c_if, c_semi, c_func, c_forhdr}

SeqsUpTo(S, n) == UNION {[1..m -> S] : m \in 0..n}

Languages == {"python", "c", "cpp"}

----------------------------------------------------------------------------
(* ai_detector.py: AIDetector.detect_ai_patterns                           *)
(* Sub-scores are in hundredths (100 stands for 1.0); a confidence is in   *)
(* ten-thousandths, the unit of a product of a sub-score and a weight.     *)

\* AIDetector.thresholds
comment_ratio_threshold       == 30
perfection_score_threshold    == 80
complexity_mismatch_threshold == 70
pattern_repetition_threshold  == 60

\* the weights of _calculate_confidence, in hundredths
confidence_weights == <<30, 30, 25, 15>>

\* 1.0 in the unit of a sub-score, and in the unit of a confidence
ScoreOne      == 100
ConfidenceOne == ScoreOne * ScoreOne

\* mutant: a sub-score equal to its threshold counts as exceeding it
exceeds_inclusive(score, threshold) == score >= threshold

\* mutant: the comparison with the threshold is reversed
exceeds_reversed(score, threshold) == score < threshold

\* the comparison of a sub-score with its threshold
exceeds(score, threshold) == score > threshold

\* AIDetector._calculate_confidence
RECURSIVE weighted_sum(_, _, _)
weighted_sum(ss, ws, n) ==
    IF n = 0 THEN 0 ELSE weighted_sum(ss, ws, n - 1) + ss[n] * ws[n]

\* mutant: the last two weights exchanged
calculate_confidence_swapped(ss) ==
    Min(weighted_sum(ss, <<30, 30, 15, 25>>, Min(Len(ss), 4)), ConfidenceOne)

calculate_confidence(ss) ==
    Min(weighted_sum(ss, confidence_weights,
                     Min(Len(ss), Len(confidence_weights))),
        ConfidenceOne)

\* mutant: a result that fails closed
default_results_failclosed ==
    [is_suspicious |-> TRUE, confidence |-> 0, detected_patterns |-> <<>>,
     explanations |-> <<>>, recommendations |-> <<>>]

\* the `results` dictionary at its creation
default_results ==
    [is_suspicious |-> FALSE, confidence |-> 0, detected_patterns |-> <<>>,
     explanations |-> <<>>, recommendations |-> <<>>]

\* the four recommendations attached to a suspicious result
ai_recommendations ==
    <<"own style", "personal comments", "human-like variations", "own twist">>

\* the pattern labels of the threshold checks, in the order they are appended
suspicious_patterns(sc) ==
    (IF exceeds(sc.comment_ratio, comment_ratio_threshold)
     THEN <<"HIGH_COMMENT_RATIO">> ELSE <<>>)
    \o (IF exceeds(sc.perfection_score, perfection_score_threshold)
        THEN <<"TOO_PERFECT">> ELSE <<>>)
    \o (IF exceeds(sc.complexity_mismatch, complexity_mismatch_threshold)
        THEN <<"COMPLEXITY_MISMATCH">> ELSE <<>>)
    \o (IF exceeds(sc.pattern_score, pattern_repetition_threshold)
        THEN <<"REPETITIVE_PATTERNS">> ELSE <<>>)

\* detect_ai_patterns, given the values the four _calculate_* calls return
\* (sc) and which of the four calls raises (rs, 0 when none does)
detect_ai_patterns(sc, rs) ==
    IF rs # 0 THEN default_results
    ELSE
    LET patterns == suspicious_patterns(sc) IN
    IF patterns # <<>>
    THEN [is_suspicious |-> TRUE,
          confidence |-> calculate_confidence(
              <<sc.comment_ratio, sc.perfection_score,
                sc.complexity_mismatch, sc.pattern_score>>),
          detected_patterns |-> patterns,
          explanations |-> patterns,
          recommendations |-> ai_recommendations]
    ELSE default_results

----------------------------------------------------------------------------
(* AIDetector._calculate_complexity_mismatch                               *)
(* The value is kept in three-hundredths: MismatchOne stands for 1.0, so   *)
(* that (actual - expected) / 3.0, 0.3 and 0.2 are all whole numbers.      *)
(* The analyzer writes its labels with the characters U+00B2, U+00B3 and   *)
(* U+207F ("O(n^2)", "O(n^3)", "O(2^n)" here).  The keys of this function  *)
(* are other strings: the same labels decoded with the wrong encoding and  *)
(* encoded again.  They are spelled here by the bytes in the source file.  *)

MismatchOne == 300

ai_label_quadratic   == "O(n<C3 82 C2 B2>)"
ai_label_cubic       == "O(n<C3 82 C2 B3>)"
ai_label_exponential == "O(2<C3 A2 C2 BF>)"

SkillLevels == {"beginner", "intermediate", "advanced"}

\* expected_complexity.get(skill_level, 'O(n)')
expected_complexity(skill_level) ==
    CASE skill_level = "beginner"     -> "O(n)"
      [] skill_level = "intermediate" -> ai_label_quadratic
      [] skill_level = "advanced"     -> ai_label_cubic
      [] OTHER                        -> "O(n)"

\* complexity_scores.get(complexity, 1)
complexity_scores(complexity) ==
    CASE complexity = "O(1)"                 -> 1
      [] complexity = "O(n)"                 -> 2
      [] complexity = ai_label_quadratic     -> 3
      [] complexity = ai_label_cubic         -> 4
      [] complexity = ai_label_exponential   -> 5
      [] OTHER                               -> 1

\* _calculate_complexity_mismatch(analysis, skill_level)
calculate_complexity_mismatch(a, skill_level) ==
    LET actual_score   == complexity_scores(a.complexity)
        expected_score == complexity_scores(expected_complexity(skill_level))
        mismatch0 == IF actual_score > expected_score + 1
                     THEN Min(((actual_score - expected_score) * MismatchOne)
                                  \div 3, MismatchOne)
                     ELSE 0
        mismatch1 == IF skill_level = "beginner" /\ a.nested_loops > 1
                     THEN mismatch0 + (3 * MismatchOne) \div 10
                     ELSE mismatch0
        mismatch2 == IF skill_level = "beginner" /\ a.functions > 2
                     THEN mismatch1 + (2 * MismatchOne) \div 10
                     ELSE mismatch1
    IN  Min(mismatch2, MismatchOne)

----------------------------------------------------------------------------
(* FeedbackGenerator: skill level, score and grade of a report             *)

\* the deduction for the complexity class (feedback.py: the if/elif chain of
\* _determine_skill_level and the complexity_penalty dictionary)
complexity_penalty(complexity) ==
    CASE complexity = "O(n^2)" -> 10
      [] complexity = "O(n^3)" -> 20
      [] complexity = "O(2^n)" -> 30
      [] OTHER                 -> 0

\* _determine_skill_level: the local `score`
skill_points(a, m) ==
    100 - Len(m) * 10 - complexity_penalty(a.complexity)
        + (IF a.functions > 1 THEN 5 ELSE 0)
        + (IF a.total_lines < 50 THEN 5 ELSE 0)

\* mutant: the cutoffs compared strictly
skill_of_points_strict(score) ==
    IF score > 80 THEN "advanced"
    ELSE IF score > 60 THEN "intermediate"
    ELSE "beginner"

\* _determine_skill_level: "Determine level"
skill_of_points(score) ==
    IF score >= 80 THEN "advanced"
    ELSE IF score >= 60 THEN "intermediate"
    ELSE "beginner"

determine_skill_level(a, m) == skill_of_points(skill_points(a, m))

\* mutant: one cutoff moved
get_grade_shifted(score) ==
    IF score >= 90 THEN "A+"
    ELSE IF score >= 80 THEN "A"
    ELSE IF score >= 70 THEN "B"
    ELSE IF score >= 65 THEN "C"
    ELSE IF score >= 50 THEN "D"
    ELSE "F"

\* _get_grade
get_grade(score) ==
    IF score >= 90 THEN "A+"
    ELSE IF score >= 80 THEN "A"
    ELSE IF score >= 70 THEN "B"
    ELSE IF score >= 60 THEN "C"
    ELSE IF score >= 50 THEN "D"
    ELSE "F"

\* mutant: bonus_points reported as the sum of the bonuses granted
calculate_score_granted_bonus(a, m) ==
    LET total_mistakes == Len(m)
        penalty == complexity_penalty(a.complexity)
        bonus == (IF a.functions > 1 THEN 5 ELSE 0)
                 + (IF a.total_lines < 50 THEN 5 ELSE 0)
                 + (IF a.nested_loops = 0 THEN 5 ELSE 0)
        score == Max(0, Min(100, 100 - total_mistakes * 5 - penalty + bonus))
    IN  [score |-> score,
         grade |-> get_grade(score),
         breakdown |->
            [base |-> 100,
             mistakes_penalty |-> total_mistakes * 5,
             complexity_penalty |-> penalty,
             bonus_points |-> bonus]]

\* _calculate_score
calculate_score(a, m) ==
    LET total_mistakes == Len(m)
        penalty == complexity_penalty(a.complexity)
        raw == 100 - total_mistakes * 5 - penalty
                   + (IF a.functions > 1 THEN 5 ELSE 0)
                   + (IF a.total_lines < 50 THEN 5 ELSE 0)
                   + (IF a.nested_loops = 0 THEN 5 ELSE 0)
        score == Max(0, Min(100, raw))
    IN  [score |-> score,
         grade |-> get_grade(score),
         breakdown |->
            [base |-> 100,
             mistakes_penalty |-> total_mistakes * 5,
             complexity_penalty |-> penalty,
             bonus_points |->
                Max(0, score - (100 - total_mistakes * 5 - penalty))]]

\* generate_feedback: the fields of the report that are computed from the
\* metrics and the findings
generate_feedback(a, m, lang) ==
    [language |-> lang,
     skill_level |-> determine_skill_level(a, m),
     mistakes |-> m,
     score |-> calculate_score(a, m)]

\* the value of `report` before generate_feedback has returned
no_report ==
    [language |-> "", skill_level |-> "", mistakes |-> <<>>,
     score |-> [score |-> 0, grade |-> "",
                breakdown |-> [base |-> 0, mistakes_penalty |-> 0,
                               complexity_penalty |-> 0, bonus_points |-> 0]]]

----------------------------------------------------------------------------
(* Values of the variables a specification does not use                    *)

Threads == {1, 2}

NoRequest == [lines |-> <<>>, language |-> "python",
              analysis |-> create_analysis_template]

ConcIdle ==
    /\ heap = <<>>
    /\ self_mistakes = 0
    /\ t_req = [t \in Threads |-> NoRequest]
    /\ t_pc = [t \in Threads |-> "idle"]
    /\ t_ret = [t \in Threads |-> 0]

AIIdle ==
    /\ scores = [comment_ratio |-> 0, perfection_score |-> 0,
                 complexity_mismatch |-> 0, pattern_score |-> 0]
    /\ raises = 0
    /\ ai_pc = "idle"
    /\ results = default_results

FeedbackIdle ==
    /\ report = no_report
    /\ ai_mismatch = 0

RepeatIdle ==
    /\ hash_seed = <<>>
    /\ returned_texts = <<>>

\* no request is being served
no_request == [endpoint |-> "", code_len |-> 0, language |-> "",
               saved_before |-> 0]

RequestIdle ==
    /\ req = no_request
    /\ req_pc = "idle"
    /\ resp = 0
    /\ stages = {}
    /\ history_len = 0

\* no generate_feedback invocation is running on the shared instance
no_levels == [skill_level |-> "", next_steps |-> "", ai_scorer |-> "",
              score |-> no_report.score]

SharedFeedbackIdle ==
    /\ self_skill_level = "beginner"
    /\ g_req = [t \in Threads |-> [analysis |-> create_analysis_template,
                                   mistakes |-> <<>>, code_lines |-> FALSE]]
    /\ g_pc = [t \in Threads |-> "idle"]
    /\ g_out = [t \in Threads |-> no_levels]

\* the history file as _create_empty_history writes it
empty_history == [total_analyses |-> 0, analyses |-> <<>>]

no_call == [op |-> "", returned |-> FALSE, size_before |-> 0]

HistoryIdle == history_file = empty_history /\ history_call = no_call

LateIdle == SharedFeedbackIdle /\ HistoryIdle

OtherIdle == RepeatIdle /\ RequestIdle /\ LateIdle

PipelineLocalIdle ==
    /\ language = "python"
    /\ code_lines = <<>>
    /\ raise_at = 0
    /\ pc = "idle"
    /\ idx = 1
    /\ analysis = create_analysis_template
    /\ stack = <<>>
    /\ loop_depth = 0
    /\ function_depth = 0
    /\ in_loop = FALSE
    /\ brace_count = 0
    /\ tokens = <<>>
    /\ combined_code = <<>>
    /\ tk = tokenize_init
    /\ metrics = create_analysis_template
    /\ mistakes = <<>>
    /\ FeedbackIdle

PipelineIdle == PipelineLocalIdle /\ OtherIdle

----------------------------------------------------------------------------
(* CodeAnalyzer.analyze_code as a state machine                            *)

Locals == [analysis |-> analysis, stack |-> stack, loop_depth |-> loop_depth,
           function_depth |-> function_depth, in_loop |-> in_loop,
           brace_count |-> brace_count]

InitLocals ==
    /\ raise_at = 0
    /\ pc = "start"
    /\ idx = 1
    /\ analysis = create_analysis_template
    /\ stack = <<>>
    /\ loop_depth = 0
    /\ function_depth = 0
    /\ in_loop = FALSE
    /\ brace_count = 0
    /\ tokens = <<>>
    /\ combined_code = <<>>
    /\ tk = tokenize_init
    /\ metrics = create_analysis_template
    /\ mistakes = <<>>
    /\ ConcIdle
    /\ AIIdle
    /\ FeedbackIdle
    /\ OtherIdle

Init ==
    /\ language \in Languages
    /\ code_lines \in (IF language = "python" THEN SeqsUpTo(PyLines, MaxLines)
                       ELSE SeqsUpTo(CLines, MaxLines))
    /\ InitLocals

\* analyze_code: the empty-input guard and the dispatch on the language.
\* For C/C++ the first statement that touches the lines is
\* ' '.join(code_lines), which raises TypeError when an element is not a
\* str; the exception is caught by analyze_code.
AnalyzeCode ==
    /\ pc = "start"
    /\ IF code_lines = <<>>
       THEN /\ metrics' = empty_analysis_result
            /\ pc' = "analyzed"
            /\ combined_code' = combined_code
       ELSE IF language = "python"
       THEN /\ pc' = "py_loop"
            /\ UNCHANGED <<metrics, combined_code>>
       ELSE IF raise_at > 0
       THEN /\ metrics' = empty_analysis_result
            /\ pc' = "analyzed"
            /\ combined_code' = combined_code
       ELSE /\ pc' = "c_tokenize"
            /\ combined_code' = JoinLines(code_lines)
            /\ metrics' = metrics
    /\ UNCHANGED <<language, code_lines, raise_at, idx, analysis, stack,
                   loop_depth, function_depth, in_loop, brace_count, tokens,
                   tk, mistakes>>
    /\ UNCHANGED <<concVars, aiVars, feedbackVars, otherVars>>

\* _tokenize_c_code: one iteration of `while i < len(code)`
CTokenizeChar ==
    /\ pc = "c_tokenize"
    /\ tk.i <= Len(combined_code)
    /\ tk' = tokenize_step(combined_code, tk)
    /\ UNCHANGED <<language, code_lines, raise_at, pc, idx, analysis, stack, loop_depth,
                   function_depth, in_loop, brace_count, tokens,
                   combined_code, metrics, mistakes>>
    /\ UNCHANGED <<concVars, aiVars, feedbackVars, otherVars>>

\* _tokenize_c_code: "Add last token" and return to _analyze_c_cpp
CTokenizeReturn ==
    /\ pc = "c_tokenize"
    /\ tk.i > Len(combined_code)
    /\ tokens' = Flush(tk.tokens, tk.current)
    /\ pc' = "c_loop"
    /\ UNCHANGED <<language, code_lines, raise_at, idx, analysis, stack, loop_depth,
                   function_depth, in_loop, brace_count, combined_code, tk,
                   metrics, mistakes>>
    /\ UNCHANGED <<concVars, aiVars, feedbackVars, otherVars>>

\* _analyze_python: one iteration of `for line in code_lines`.  line.strip()
\* raises AttributeError when the element is not a str; analyze_code catches
\* it and returns _empty_analysis_result().
PyLine ==
    /\ pc = "py_loop"
    /\ idx <= Len(code_lines)
    /\ IF idx = raise_at
       THEN /\ metrics' = empty_analysis_result
            /\ pc' = "analyzed"
            /\ UNCHANGED <<idx, analysis, stack, loop_depth, function_depth,
                           in_loop>>
       ELSE /\ LET line == code_lines[idx]
                   r == IF Strip(line) = <<>> THEN Locals
                        ELSE analyze_python_line(line, Locals)
               IN  /\ analysis' = r.analysis
                   /\ stack' = r.stack
                   /\ loop_depth' = r.loop_depth
                   /\ function_depth' = r.function_depth
                   /\ in_loop' = r.in_loop
            /\ idx' = idx + 1
            /\ UNCHANGED <<pc, metrics>>
    /\ UNCHANGED <<language, code_lines, raise_at, brace_count, tokens,
                   combined_code, tk, mistakes>>
    /\ UNCHANGED <<concVars, aiVars, feedbackVars, otherVars>>

\* _analyze_python: "Calculate complexity" and return
PyReturn ==
    /\ pc = "py_loop"
    /\ idx > Len(code_lines)
    /\ metrics' = [analysis EXCEPT !.complexity =
                      estimate_complexity(analysis.loops, analysis.nested_loops,
                                          analysis.max_nesting_depth)]
    /\ analysis' = metrics'
    /\ pc' = "analyzed"
    /\ UNCHANGED <<language, code_lines, raise_at, idx, stack, loop_depth,
                   function_depth, in_loop, brace_count, tokens,
                   combined_code, tk,
                   mistakes>>
    /\ UNCHANGED <<concVars, aiVars, feedbackVars, otherVars>>

\* _analyze_c_cpp: one iteration of `while i < len(tokens)`
CToken ==
    /\ pc = "c_loop"
    /\ idx <= Len(tokens)
    /\ LET r == analyze_c_token(tokens, idx, Locals)
       IN  /\ analysis' = r.analysis
           /\ brace_count' = r.brace_count
           /\ loop_depth' = r.loop_depth
           /\ function_depth' = r.function_depth
           /\ in_loop' = r.in_loop
    /\ idx' = idx + 1
    /\ UNCHANGED <<language, code_lines, raise_at, pc, stack, tokens, combined_code, tk,
                   metrics, mistakes>>
    /\ UNCHANGED <<concVars, aiVars, feedbackVars, otherVars>>

\* _analyze_c_cpp: line count, variable count, complexity and return
CReturn ==
    /\ pc = "c_loop"
    /\ idx > Len(tokens)
    /\ metrics' = [analysis EXCEPT
                      !.total_lines = Len(code_lines),
                      !.variables = @ + c_count_variables(code_lines),
                      !.complexity =
                          estimate_complexity(analysis.loops,
                                              analysis.nested_loops,
                                              analysis.max_nesting_depth)]
    /\ analysis' = metrics'
    /\ pc' = "analyzed"
    /\ UNCHANGED <<language, code_lines, raise_at, idx, stack, loop_depth,
                   function_depth, in_loop, brace_count, tokens,
                   combined_code, tk,
                   mistakes>>
    /\ UNCHANGED <<concVars, aiVars, feedbackVars, otherVars>>

\* detector.detect_mistakes(code_lines, language, analysis).  When an
\* element of code_lines is not a str, the str method called on it by
\* _check_unused_variables raises and detect_mistakes returns [].
DetectMistakes ==
    /\ pc = "analyzed"
    /\ mistakes' = IF raise_at > 0 THEN <<>>
                   ELSE detect_mistakes(code_lines, language, metrics)
    /\ pc' = "detected"
    /\ UNCHANGED <<language, code_lines, raise_at, idx, analysis, stack,
                   loop_depth, function_depth, in_loop, brace_count, tokens,
                   combined_code, tk, metrics>>
    /\ UNCHANGED <<concVars, aiVars, feedbackVars, otherVars>>

\* feedback_gen.generate_feedback(analysis, mistakes, language, code_lines)
GenerateFeedback ==
    /\ pc = "detected"
    /\ report' = generate_feedback(metrics, mistakes, language)
    /\ pc' = "reported"
    /\ UNCHANGED <<language, code_lines, raise_at, idx, analysis, stack, loop_depth,
                   function_depth, in_loop, brace_count, tokens,
                   combined_code, tk, metrics, mistakes, ai_mismatch>>
    /\ UNCHANGED <<concVars, aiVars, otherVars>>

\* detect_ai_patterns(code_lines, language, analysis, feedback skill level):
\* its call of _calculate_complexity_mismatch
CalculateComplexityMismatch ==
    /\ pc = "reported"
    /\ raise_at = 0    \* else _calculate_comment_ratio raises before it
    /\ ai_mismatch' = calculate_complexity_mismatch(metrics, report.skill_level)
    /\ pc' = "ai_scored"
    /\ UNCHANGED <<language, code_lines, raise_at, idx, analysis, stack, loop_depth,
                   function_depth, in_loop, brace_count, tokens,
                   combined_code, tk, metrics, mistakes, report>>
    /\ UNCHANGED <<concVars, aiVars, otherVars>>

Next == AnalyzeCode \/ PyLine \/ PyReturn
        \/ CTokenizeChar \/ CTokenizeReturn \/ CToken \/ CReturn
        \/ DetectMistakes \/ GenerateFeedback \/ CalculateComplexityMismatch

Spec == Init /\ [][Next]_vars

----------------------------------------------------------------------------
(* detect_mistakes on arbitrary lines, language and metrics                *)

MaxDetectLines == 3   \* lines per input of the detector

md_py_s     == <<"s", "=", "0">>
md_py_t     == <<"t", " ", "=", " ", "4", "2">>
md_py_use   == <<"p", "r", "i", "n", "t", "(", "s", ")">>
md_py_magic == <<"x", " ", "=", " ", "1", "7", " ", "+", " ", "9", "9", " ", "+", " ", "2", "5", "6", " ", "+", " ", "3", ".", "1", "4">>
md_py_deep  == Spaces(4 * (max_indentation_level + 1)) \o md_py_s
md_py_edge  == Spaces(4 * max_indentation_level) \o md_py_use

MDPyLines == {md_py_s, md_py_t, md_py_use, md_py_magic, md_py_deep, md_py_edge}

md_c_total  == <<"i", "n", "t", " ", "t", "o", "t", "a", "l", " ", "=", " ", "0", ";">>
md_c_count  == <<"i", "n", "t", " ", "c", "o", "u", "n", "t", ";">>
md_c_use    == <<"t", "o", "t", "a", "l", " ", "=", " ", "t", "o", "t", "a", "l", " ", "+", " ", "1", ";">>
md_c_magic  == <<"x", " ", "=", " ", "1", "7", " ", "+", " ", "9", "9", " ", "+", " ", "2", "5", "6", " ", "+", " ", "4", "2", " ", ";">>
md_c_deep   == Spaces(4 * (max_indentation_level + 1)) \o md_c_use

MDCLines == {md_c_total, md_c_count, md_c_use, md_c_magic, md_c_deep}

\* metrics records around the thresholds of the three metric rules
MDMetrics ==
    {[create_analysis_template EXCEPT
         !.loops = nl + 1, !.nested_loops = nl, !.max_nesting_depth = d,
         !.conditionals = c, !.total_lines = tl, !.functions = f] :
       nl \in {0, 1},
       d \in {max_nested_loops, max_nested_loops + 1},
       c \in {max_conditions_per_function, max_conditions_per_function + 1},
       tl \in {max_function_lines, max_function_lines + 1},
       f \in {1, 2}}

InitDetect ==
    /\ language \in Languages
    /\ code_lines \in (IF language = "python"
                       THEN SeqsUpTo(MDPyLines, MaxDetectLines)
                       ELSE SeqsUpTo(MDCLines, MaxDetectLines))
    /\ metrics \in MDMetrics
    /\ raise_at = 0
    /\ pc = "analyzed"
    /\ idx = 1
    /\ analysis = metrics
    /\ stack = <<>>
    /\ loop_depth = 0
    /\ function_depth = 0
    /\ in_loop = FALSE
    /\ brace_count = 0
    /\ tokens = <<>>
    /\ combined_code = <<>>
    /\ tk = tokenize_init
    /\ mistakes = <<>>
    /\ ConcIdle
    /\ AIIdle
    /\ FeedbackIdle
    /\ OtherIdle

NextDetect == DetectMistakes

SpecDetect == InitDetect /\ [][NextDetect]_vars

----------------------------------------------------------------------------
(* The scenario inputs of the specification's testable properties          *)

\* python: assignments and calls around one loop with an indented body
sc_x     == <<"x", "=", "[", "1", ",", "2", ",", "3", "]">>
sc_s     == <<"s", "=", "0">>
sc_for   == <<"f", "o", "r", " ", "n", " ", "i", "n", " ", "x", ":">>
sc_while == <<"w", "h", "i", "l", "e", " ", "s", " ", "<", " ", "1", "0", ":">>
sc_body  == <<"s", "=", "s", "+", "n">>
sc_call  == <<"p", "r", "i", "n", "t", "(", "n", ")">>
sc_print == <<"p", "r", "i", "n", "t", "(", "s", ")">>

\* leading spaces of the loop body in the enumerated scenarios
BodyIndents == {2, 4, 8}

PyLoopScenarios ==
    {pre \o <<loop>> \o body \o post :
        pre  \in {<<>>, <<sc_s>>, <<sc_x, sc_s>>},
        loop \in {sc_for, sc_while},
        body \in UNION {{<<Spaces(w) \o sc_body>>,
                         <<Spaces(w) \o sc_body, Spaces(w) \o sc_call>>} :
                            w \in BodyIndents},
        post \in {<<>>, <<sc_print>>}}

\* the scenario input  x=[1,2,3] / s=0 / for n in x: / s=s+n / print(s)
PyLoopExample ==
    <<sc_x, sc_s, sc_for, Spaces(4) \o sc_body, sc_print>>

\* C/C++: a for loop nested three deep with an if in the innermost body
sc_main   == <<"i", "n", "t", " ", "m", "a", "i", "n", "(", ")", " ", "{">>
sc_for_i  == <<"f", "o", "r", " ", "(", "i", " ", "=", " ", "0", ";", " ", "i", " ", "<", " ", "n", ";", " ", "i", "+", "+", ")", " ", "{">>
sc_for_j  == <<"f", "o", "r", " ", "(", "j", " ", "=", " ", "0", ";", " ", "j", " ", "<", " ", "n", ";", " ", "j", "+", "+", ")", " ", "{">>
sc_for_k  == <<"f", "o", "r", " ", "(", "k", " ", "=", " ", "0", ";", " ", "k", " ", "<", " ", "n", ";", " ", "k", "+", "+", ")", " ", "{">>
sc_if     == <<"i", "f", " ", "(", "a", "[", "i", "]", "[", "j", "]", " ", ">", " ", "k", ")", " ", "{">>
sc_assign == <<"t", "o", "t", "a", "l", " ", "=", " ", "t", "o", "t", "a", "l", " ", "+", " ", "1", ";">>
sc_printf == <<"p", "r", "i", "n", "t", "f", "(", "\"", "%", "d", "\"", ",", " ", "k", ")", ";">>
sc_close  == <<"}">>

CTripleNest(stmt) ==
    <<sc_for_i,
      Spaces(4) \o sc_for_j,
      Spaces(8) \o sc_for_k,
      Spaces(12) \o sc_if,
      Spaces(16) \o stmt,
      Spaces(12) \o sc_close,
      Spaces(8) \o sc_close,
      Spaces(4) \o sc_close,
      sc_close>>

CNestScenarios ==
    {pre \o CTripleNest(stmt) \o post :
        stmt \in {sc_assign, sc_printf},
        pre \in {<<>>}, post \in {<<>>}}
    \cup
    {<<sc_main>> \o CTripleNest(stmt) \o <<sc_close>> :
        stmt \in {sc_assign, sc_printf}}

InitScenario ==
    /\ language \in Languages
    /\ code_lines \in (IF language = "python" THEN PyLoopScenarios
                       ELSE CNestScenarios)
    /\ InitLocals

SpecScenario == InitScenario /\ [][Next]_vars

----------------------------------------------------------------------------
(* Two requests inside detect_mistakes on the shared MistakeDetector       *)
(* instance (app.py creates one `detector`; the server handles requests in *)
(* threads).  A step is one statement of detect_mistakes; each _check_*    *)
(* call is taken as one step.                                              *)

\* the arguments of the concurrent calls
ConcMetrics ==
    {create_analysis_template,
     [create_analysis_template EXCEPT
         !.loops = 3, !.nested_loops = 2,
         !.max_nesting_depth = max_nested_loops + 1,
         !.complexity = "O(n^3)"]}

ConcRequests ==
    {[lines |-> l, language |-> "python", analysis |-> a] :
        l \in {<<>>, <<md_py_s>>, <<md_py_s, md_py_use>>, <<md_py_magic>>},
        a \in ConcMetrics}

InitConc ==
    /\ PipelineIdle
    /\ AIIdle
    /\ heap = <<<<>>>>            \* the list created by __init__
    /\ self_mistakes = 1
    /\ t_req \in [Threads -> ConcRequests]
    /\ t_pc = [t \in Threads |-> "reset"]
    /\ t_ret = [t \in Threads |-> 0]

\* the order of the checks in detect_mistakes
check_order == <<"nested", "conditions", "long", "unused", "indent", "magic",
                 "return">>

\* the findings the check at a position appends for a request
check_findings(position, r) ==
    CASE position = "nested"     -> check_nested_loops(r.analysis)
      [] position = "conditions" -> check_too_many_conditions(r.analysis)
      [] position = "long"       -> check_long_functions(r.analysis)
      [] position = "unused"     -> check_unused_variables(r.lines, r.language)
      [] position = "indent"     -> check_deep_indentation(r.lines, r.language)
      [] position = "magic"      -> check_magic_numbers(r.lines, r.language)

NextPosition(position) ==
    LET k == CHOOSE n \in 1..Len(check_order) : check_order[n] = position
    IN  check_order[k + 1]

\* self.mistakes = []  and the guard  `if not code_lines ...: return []`
TReset(t) ==
    /\ t_pc[t] = "reset"
    /\ IF t_req[t].lines = <<>>
       THEN \* the reset list, then a second fresh list that is returned
            /\ heap' = heap \o <<<<>>, <<>>>>
            /\ self_mistakes' = Len(heap) + 1
            /\ t_ret' = [t_ret EXCEPT ![t] = Len(heap) + 2]
            /\ t_pc' = [t_pc EXCEPT ![t] = "done"]
       ELSE /\ heap' = Append(heap, <<>>)
            /\ self_mistakes' = Len(heap) + 1
            /\ t_pc' = [t_pc EXCEPT ![t] = "nested"]
            /\ t_ret' = t_ret
    /\ UNCHANGED <<t_req, pipelineVars, aiVars, feedbackVars, otherVars>>

\* one self._check_*(...) call: appends to the list self.mistakes names now
TCheck(t) ==
    /\ t_pc[t] \in SeqRange(check_order) \ {"return"}
    /\ heap' = [heap EXCEPT ![self_mistakes] =
                   @ \o check_findings(t_pc[t], t_req[t])]
    /\ t_pc' = [t_pc EXCEPT ![t] = NextPosition(t_pc[t])]
    /\ UNCHANGED <<self_mistakes, t_req, t_ret, pipelineVars, aiVars,
                   feedbackVars, otherVars>>

\* return self.mistakes
TReturn(t) ==
    /\ t_pc[t] = "return"
    /\ t_ret' = [t_ret EXCEPT ![t] = self_mistakes]
    /\ t_pc' = [t_pc EXCEPT ![t] = "done"]
    /\ UNCHANGED <<heap, self_mistakes, t_req, pipelineVars, aiVars,
                   feedbackVars, otherVars>>

NextConc == \E t \in Threads : TReset(t) \/ TCheck(t) \/ TReturn(t)

SpecConc == InitConc /\ [][NextConc]_vars

----------------------------------------------------------------------------
(* detect_ai_patterns on arbitrary sub-scores                              *)

ScorePoints == 2    \* the sub-score grid has ScorePoints + 1 even points

ScoreGrid ==
    {(k * ScoreOne) \div ScorePoints : k \in 0..ScorePoints}
    \cup UNION {{th, th + 1} : th \in {comment_ratio_threshold,
                                        perfection_score_threshold,
                                        complexity_mismatch_threshold,
                                        pattern_repetition_threshold}}

InitAI ==
    /\ PipelineIdle
    /\ ConcIdle
    /\ scores \in [comment_ratio : ScoreGrid, perfection_score : ScoreGrid,
                   complexity_mismatch : ScoreGrid, pattern_score : ScoreGrid]
    /\ raises \in 0..4
    /\ ai_pc = "call"
    /\ results = default_results

\* ai_detector.detect_ai_patterns(code_lines, language, analysis, skill_level)
DetectAIPatterns ==
    /\ ai_pc = "call"
    /\ results' = detect_ai_patterns(scores, raises)
    /\ ai_pc' = "done"
    /\ UNCHANGED <<scores, raises, pipelineVars, concVars, feedbackVars, otherVars>>

NextAI == DetectAIPatterns

SpecAI == InitAI /\ [][NextAI]_vars

----------------------------------------------------------------------------
(* generate_feedback and the complexity-mismatch sub-score on arbitrary    *)
(* metrics records and finding lists                                      *)

MaxFindings == 18    \* findings besides NESTED_LOOPS in a finding list
MaxFunctions == 3    \* functions counted in a metrics record

\* (loops, nested_loops, max_nesting_depth) of a nest of d loops
NestRecord(d) ==
    [create_analysis_template EXCEPT
        !.loops = d,
        !.nested_loops = IF d = 0 THEN 0 ELSE d - 1,
        !.max_nesting_depth = d,
        !.complexity = estimate_complexity(d, IF d = 0 THEN 0 ELSE d - 1, d)]

FeedbackMetrics ==
    {[NestRecord(d) EXCEPT !.functions = f, !.total_lines = tl] :
        d \in 0..4, f \in 0..MaxFunctions, tl \in {49, 50}}

\* a finding list for a record: what _check_nested_loops reports for it,
\* followed by n UNUSED_VARIABLE findings
FeedbackFindings(a, n) ==
    check_nested_loops(a)
    \o [i \in 1..n |-> Finding("UNUSED_VARIABLE", 0, <<"v">>, 0, {})]

InitFeedback ==
    /\ language \in Languages
    /\ code_lines = <<>>
    /\ metrics \in FeedbackMetrics
    /\ mistakes \in {FeedbackFindings(metrics, n) : n \in 0..MaxFindings}
    /\ raise_at = 0
    /\ pc = "detected"
    /\ idx = 1
    /\ analysis = metrics
    /\ stack = <<>>
    /\ loop_depth = 0
    /\ function_depth = 0
    /\ in_loop = FALSE
    /\ brace_count = 0
    /\ tokens = <<>>
    /\ combined_code = <<>>
    /\ tk = tokenize_init
    /\ ConcIdle
    /\ AIIdle
    /\ FeedbackIdle
    /\ OtherIdle

NextFeedback == GenerateFeedback \/ CalculateComplexityMismatch

SpecFeedback == InitFeedback /\ [][NextFeedback]_vars

----------------------------------------------------------------------------
(* detect_mistakes called twice with the same arguments                    *)

MaxRepeatLines == 2    \* lines per input of the repeated call

RepeatLines == {md_py_magic, md_py_s}

RepeatInputs == SeqsUpTo(RepeatLines, MaxRepeatLines)

\* the number tokens of the inputs
NumberTokens == SeqRange(magic_numbers(<<md_py_magic>>))

\* the orders in which an interpreter process can iterate over them
HashOrders ==
    {o \in [1..Cardinality(NumberTokens) -> NumberTokens] :
        \A i, j \in 1..Cardinality(NumberTokens) : i # j => o[i] # o[j]}

InitRepeat ==
    /\ language \in Languages
    /\ code_lines \in RepeatInputs
    /\ metrics \in {NestRecord(0), NestRecord(max_nested_loops + 1)}
    /\ raise_at = 0
    /\ pc = "analyzed"
    /\ idx = 1
    /\ analysis = metrics
    /\ stack = <<>>
    /\ loop_depth = 0
    /\ function_depth = 0
    /\ in_loop = FALSE
    /\ brace_count = 0
    /\ tokens = <<>>
    /\ combined_code = <<>>
    /\ tk = tokenize_init
    /\ mistakes = <<>>       \* the instance's self.mistakes
    /\ ConcIdle
    /\ AIIdle
    /\ FeedbackIdle
    /\ RequestIdle
    /\ LateIdle
    /\ hash_seed \in HashOrders
    /\ returned_texts = <<>>

\* detector.detect_mistakes(code_lines, language, metrics): the first and
\* the second invocation with these arguments
RepeatCall ==
    /\ pc = "analyzed"
    /\ Len(returned_texts) < 2
    /\ mistakes' = detect_mistakes(code_lines, language, metrics)
    /\ returned_texts' =
           Append(returned_texts, finding_texts(mistakes', hash_seed))
    /\ UNCHANGED <<language, code_lines, raise_at, pc, idx, analysis, stack,
                   loop_depth, function_depth, in_loop, brace_count, tokens,
                   combined_code, tk, metrics, hash_seed>>
    /\ UNCHANGED <<concVars, aiVars, feedbackVars, requestVars, lateVars>>

\* a call with other arguments on the same instance, between the two
OtherCall ==
    /\ pc = "analyzed"
    /\ Len(returned_texts) = 1
    /\ \E other \in RepeatInputs :
          /\ other # code_lines
          /\ mistakes' = detect_mistakes(other, language, metrics)
    /\ UNCHANGED <<language, code_lines, raise_at, pc, idx, analysis, stack,
                   loop_depth, function_depth, in_loop, brace_count, tokens,
                   combined_code, tk, metrics>>
    /\ UNCHANGED <<concVars, aiVars, feedbackVars, otherVars>>

\* the server is started again: a new interpreter process, whose str hash
\* seed is drawn afresh, imports app.py and creates a new MistakeDetector
Restart ==
    /\ pc = "analyzed"
    /\ Len(returned_texts) = 1
    /\ hash_seed' \in HashOrders
    /\ mistakes' = <<>>
    /\ UNCHANGED <<language, code_lines, raise_at, pc, idx, analysis, stack,
                   loop_depth, function_depth, in_loop, brace_count, tokens,
                   combined_code, tk, metrics, returned_texts>>
    /\ UNCHANGED <<concVars, aiVars, feedbackVars, requestVars, lateVars>>

NextRepeat == RepeatCall \/ OtherCall \/ Restart

SpecRepeat == InitRepeat /\ [][NextRepeat]_vars

----------------------------------------------------------------------------
(* detect_mistakes on lines of numeric tokens                              *)

MaxMagicLines == 3    \* lines per input

mg_twice   == <<"z", " ", "=", " ", "7", " ", "+", " ", "7">>
mg_allowed == <<"y", " ", "=", " ", "0", " ", "+", " ", "1", " ", "+", " ", "2", " ", "+", " ", "1", "0", " ", "+", " ", "1", "0", "0", " ", "+", " ", "1", "0", "0", "0">>
mg_near    == <<"w", " ", "=", " ", "1", ".", "0", " ", "+", " ", "0", "1", " ", "+", " ", "s", "=", "5">>

MagicLines == {md_py_magic, mg_twice, mg_allowed, mg_near}

InitMagic ==
    /\ language \in Languages
    /\ code_lines \in SeqsUpTo(MagicLines, MaxMagicLines)
    /\ metrics = NestRecord(0)
    /\ raise_at = 0
    /\ pc = "analyzed"
    /\ idx = 1
    /\ analysis = metrics
    /\ stack = <<>>
    /\ loop_depth = 0
    /\ function_depth = 0
    /\ in_loop = FALSE
    /\ brace_count = 0
    /\ tokens = <<>>
    /\ combined_code = <<>>
    /\ tk = tokenize_init
    /\ mistakes = <<>>
    /\ ConcIdle
    /\ AIIdle
    /\ FeedbackIdle
    /\ OtherIdle

SpecMagic == InitMagic /\ [][NextDetect]_vars

----------------------------------------------------------------------------
(* analyze_code on empty input and on input that makes the analysis raise  *)

MaxRaiseLines == 2    \* lines per input

InitRaise ==
    /\ language \in Languages
    /\ code_lines \in (IF language = "python"
                       THEN SeqsUpTo(PyLines, MaxRaiseLines)
                       ELSE SeqsUpTo(CLines, MaxRaiseLines))
    /\ raise_at \in 0..Len(code_lines)
    /\ pc = "start"
    /\ idx = 1
    /\ analysis = create_analysis_template
    /\ stack = <<>>
    /\ loop_depth = 0
    /\ function_depth = 0
    /\ in_loop = FALSE
    /\ brace_count = 0
    /\ tokens = <<>>
    /\ combined_code = <<>>
    /\ tk = tokenize_init
    /\ metrics = create_analysis_template
    /\ mistakes = <<>>
    /\ ConcIdle
    /\ AIIdle
    /\ FeedbackIdle
    /\ OtherIdle

SpecRaise == InitRaise /\ [][Next]_vars

----------------------------------------------------------------------------
(* The request handlers /analyze-old and /analyze of app.py: which stages  *)
(* run for a request, what is saved and what status is answered            *)

MaxSaved == 2    \* analyses saved to history before the model stops

\* app.py: `if len(code) > 10000`
max_code_length == 10000

Endpoints == {"analyze-old", "analyze"}

\* lengths of the submitted code around the two size limits
CodeLengths == {0, 1, max_code_length, max_code_length + 1,
                1024 * 1024, 1024 * 1024 + 1}

\* mutant: the size check left out (as in the /analyze/quick handler)
check_input_no_limit(code_len) ==
    IF code_len = 0 THEN "empty" ELSE "ok"

\* the two guards at the head of both handlers
check_input(code_len) ==
    IF code_len = 0 THEN "empty"
    ELSE IF code_len > max_code_length THEN "too_large"
    ELSE "ok"

\* reader.read_code_from_text(code, language): CodeReader as it is under src/
\* has no such method, so the call raises AttributeError; the cleaning
\* stage the handler expects returns the cleaned lines, possibly none
read_code_from_text_outcomes == {"raises", "no_lines", "lines"}

\* analyzer.analyze_submission(code, question_id): likewise not a method of
\* CodeAnalyzer under src/
analyze_submission_outcomes == {"raises", "result"}

InitRequest ==
    /\ PipelineIdle
    /\ ConcIdle
    /\ AIIdle
    /\ RepeatIdle
    /\ RequestIdle
    /\ LateIdle

\* a POST arrives: data = request.json, code, language
Receive ==
    /\ req_pc \in {"idle", "responded"}
    /\ history_len < MaxSaved
    /\ \E e \in Endpoints, n \in CodeLengths, l \in Languages :
          req' = [endpoint |-> e, code_len |-> n, language |-> l,
                  saved_before |-> history_len]
    /\ req_pc' = "guard"
    /\ resp' = 0
    /\ stages' = {}
    /\ UNCHANGED <<history_len, repeatVars, lateVars,
                   pipelineVars, concVars, aiVars,
                   feedbackVars>>

\* `if not code` and `if len(code) > 10000`: answer 400
CheckInput ==
    /\ req_pc = "guard"
    /\ IF check_input(req.code_len) = "ok"
       THEN /\ req_pc' = (IF req.endpoint = "analyze-old" THEN "clean"
                          ELSE "submission")
            /\ resp' = resp
       ELSE /\ req_pc' = "responded"
            /\ resp' = 400
    /\ UNCHANGED <<req, stages, history_len, repeatVars, lateVars,
                   pipelineVars,
                   concVars, aiVars, feedbackVars>>

\* /analyze-old: code_lines = reader.read_code_from_text(code, language) and
\* `if not code_lines`: answer 400; an exception is answered with 500
ReadCodeFromText ==
    /\ req_pc = "clean"
    /\ \E outcome \in read_code_from_text_outcomes :
          CASE outcome = "raises" ->
                  /\ req_pc' = "responded" /\ resp' = 500
                  /\ stages' = stages
            [] outcome = "no_lines" ->
                  /\ req_pc' = "responded" /\ resp' = 400
                  /\ stages' = stages \cup {"normalizer"}
            [] outcome = "lines" ->
                  /\ req_pc' = "analyze" /\ resp' = resp
                  /\ stages' = stages \cup {"normalizer"}
    /\ UNCHANGED <<req, history_len, repeatVars, lateVars,
                   pipelineVars, concVars,
                   aiVars, feedbackVars>>

\* /analyze-old: the four stages in the order the handler calls them
RunStage ==
    /\ req_pc \in {"analyze", "detect", "feedback", "ai"}
    /\ stages' = stages \cup
           {CASE req_pc = "analyze"  -> "analyzer"
              [] req_pc = "detect"   -> "mistake_detector"
              [] req_pc = "feedback" -> "feedback_generator"
              [] req_pc = "ai"       -> "ai_scorer"}
    /\ req_pc' = CASE req_pc = "analyze"  -> "detect"
                   [] req_pc = "detect"   -> "feedback"
                   [] req_pc = "feedback" -> "ai"
                   [] req_pc = "ai"       -> "save"
    /\ UNCHANGED <<req, resp, history_len, repeatVars, lateVars,
                   pipelineVars,
                   concVars, aiVars, feedbackVars>>

\* /analyze: result = analyzer.analyze_submission(code, question_id)
AnalyzeSubmission ==
    /\ req_pc = "submission"
    /\ \E outcome \in analyze_submission_outcomes :
          IF outcome = "raises"
          THEN /\ req_pc' = "responded" /\ resp' = 500
               /\ stages' = stages
          ELSE /\ req_pc' = "save" /\ resp' = resp
               /\ stages' = stages \cup {"analyzer"}
    /\ UNCHANGED <<req, history_len, repeatVars, lateVars,
                   pipelineVars, concVars,
                   aiVars, feedbackVars>>

\* history_manager.save_analysis(...) and return jsonify(...)
SaveAndRespond ==
    /\ req_pc = "save"
    /\ history_len' = history_len + 1
    /\ resp' = 200
    /\ req_pc' = "responded"
    /\ UNCHANGED <<req, stages, repeatVars, lateVars,
                   pipelineVars, concVars, aiVars,
                   feedbackVars>>

NextRequest == Receive \/ CheckInput \/ ReadCodeFromText \/ RunStage
               \/ AnalyzeSubmission \/ SaveAndRespond

SpecRequest == InitRequest /\ [][NextRequest]_vars

----------------------------------------------------------------------------
(* Two requests inside generate_feedback on the shared FeedbackGenerator   *)
(* instance (app.py creates one `feedback_gen`; the server handles         *)
(* requests in threads).  A step is one statement of generate_feedback     *)
(* that writes or reads self.skill_level.                                  *)

\* the arguments of the concurrent generate_feedback calls; code_lines
\* tells whether the optional code_lines argument is given
SharedRequests ==
    {[analysis |-> a, mistakes |-> FeedbackFindings(a, n), code_lines |-> c] :
        a \in {NestRecord(0), NestRecord(3)}, n \in {0, 3, 5}, c \in BOOLEAN}

sharedOthers == <<pipelineVars, concVars, aiVars, feedbackVars, repeatVars,
                 requestVars, historyVars>>

InitShared ==
    /\ PipelineLocalIdle
    /\ ConcIdle
    /\ AIIdle
    /\ RepeatIdle
    /\ RequestIdle
    /\ HistoryIdle
    /\ self_skill_level = "beginner"       \* set by __init__
    /\ g_req \in [Threads -> SharedRequests]
    /\ g_pc = [t \in Threads |-> "determine"]
    /\ g_out = [t \in Threads |-> no_levels]

\* self._determine_skill_level(analysis, mistakes): assigns self.skill_level
GDetermine(t) ==
    /\ g_pc[t] = "determine"
    /\ self_skill_level' =
           determine_skill_level(g_req[t].analysis, g_req[t].mistakes)
    /\ g_pc' = [g_pc EXCEPT ![t] = "skill_level"]
    /\ UNCHANGED <<g_req, g_out>>
    /\ UNCHANGED sharedOthers

\* "skill_level": self.skill_level.value
GSkillLevel(t) ==
    /\ g_pc[t] = "skill_level"
    /\ g_out' = [g_out EXCEPT ![t].skill_level = self_skill_level]
    /\ g_pc' = [g_pc EXCEPT ![t] = "next_steps"]
    /\ UNCHANGED <<self_skill_level, g_req>>
    /\ UNCHANGED sharedOthers

\* "next_steps": self._suggest_next_steps(...), which branches on
\* self.skill_level
GNextSteps(t) ==
    /\ g_pc[t] = "next_steps"
    /\ g_out' = [g_out EXCEPT ![t].next_steps = self_skill_level]
    /\ g_pc' = [g_pc EXCEPT ![t] = "score"]
    /\ UNCHANGED <<self_skill_level, g_req>>
    /\ UNCHANGED sharedOthers

\* "score": self._calculate_score(analysis, mistakes), then `if code_lines:`
GScore(t) ==
    /\ g_pc[t] = "score"
    /\ g_out' = [g_out EXCEPT ![t].score =
                    calculate_score(g_req[t].analysis, g_req[t].mistakes)]
    /\ g_pc' = [g_pc EXCEPT ![t] =
                   IF g_req[t].code_lines THEN "ai_detection" ELSE "done"]
    /\ UNCHANGED <<self_skill_level, g_req>>
    /\ UNCHANGED sharedOthers

\* `if code_lines:` ai_detector.detect_ai_patterns(...,
\* skill_level=self.skill_level.value)
GAIDetection(t) ==
    /\ g_pc[t] = "ai_detection"
    /\ g_out' = [g_out EXCEPT ![t].ai_scorer = self_skill_level]
    /\ g_pc' = [g_pc EXCEPT ![t] = "done"]
    /\ UNCHANGED <<self_skill_level, g_req>>
    /\ UNCHANGED sharedOthers

NextShared ==
    \E t \in Threads :
        GDetermine(t) \/ GSkillLevel(t) \/ GNextSteps(t) \/ GScore(t)
        \/ GAIDetection(t)

SpecShared == InitShared /\ [][NextShared]_vars

----------------------------------------------------------------------------
(* _tokenize_c_code on text with quotes and comment markers, terminated    *)
(* or not                                                                  *)

MaxTokLines == 3    \* lines per input

tl_quote == <<"\"">>
tl_apos  == <<"'">>
tl_word  == <<"a", "\\">>
tl_open  == <<"/", "*">>
tl_close == <<"*", "/">>
tl_line  == <<"/", "/">>
tl_nl    == <<"\n">>

TokLines == {tl_quote, tl_apos, tl_word, tl_open, tl_close, tl_line, tl_nl}

InitTokenize ==
    /\ language \in {"c", "cpp"}
    /\ code_lines \in SeqsUpTo(TokLines, MaxTokLines)
    /\ InitLocals

NextTokenize == AnalyzeCode \/ CTokenizeChar \/ CTokenizeReturn

\* analyze_code runs in one thread from its call to its return: a statement
\* that can be executed is executed
SpecTokenize ==
    /\ InitTokenize
    /\ [][NextTokenize]_vars
    /\ WF_vars(CTokenizeChar)
    /\ WF_vars(CTokenizeReturn)

----------------------------------------------------------------------------
(* HistoryManager: save_analysis and clear_history on one history file,    *)
(* one call at a time                                                      *)

MaxHistory == 4    \* analyses stored before the model stops saving

\* mutant: the entry is appended but the metadata count is not refreshed
save_analysis_stale_total(history, feedback) ==
    LET analysis_entry == [id |-> Len(history.analyses) + 1,
                           language |-> feedback.language]
    IN  [history EXCEPT !.analyses = Append(@, analysis_entry)]

\* save_analysis, from the loaded history to the history written back; an
\* entry is kept as its id and its language
save_analysis(history, feedback) ==
    LET analysis_entry == [id |-> Len(history.analyses) + 1,
                           language |-> feedback.language]
        analyses == Append(history.analyses, analysis_entry)
    IN  [total_analyses |-> Len(analyses), analyses |-> analyses]

\* __init__ -> _ensure_data_dir -> _create_empty_history
InitHistory ==
    /\ PipelineLocalIdle
    /\ ConcIdle
    /\ AIIdle
    /\ RepeatIdle
    /\ RequestIdle
    /\ SharedFeedbackIdle
    /\ history_file = empty_history
    /\ history_call = no_call

historyOthers == <<pipelineVars, concVars, aiVars, feedbackVars, repeatVars,
                   requestVars, sharedFeedbackVars>>

\* save_analysis(feedback, ...): load, append the entry, update the
\* metadata, write back, return True
SaveAnalysis ==
    /\ Len(history_file.analyses) < MaxHistory
    /\ \E l \in Languages :
          history_file' = save_analysis(history_file, [language |-> l])
    /\ history_call' = [op |-> "save", returned |-> TRUE,
                        size_before |-> Len(history_file.analyses)]
    /\ UNCHANGED historyOthers

\* save_analysis with a feedback argument whose fields cannot be read
\* (feedback.get raises): the except branch returns False, nothing is written
SaveAnalysisFails ==
    /\ history_call' = [op |-> "save", returned |-> FALSE,
                        size_before |-> Len(history_file.analyses)]
    /\ UNCHANGED history_file
    /\ UNCHANGED historyOthers

\* clear_history: _create_empty_history() and return True
ClearHistory ==
    /\ history_file' = empty_history
    /\ history_call' = [op |-> "clear", returned |-> TRUE,
                        size_before |-> Len(history_file.analyses)]
    /\ UNCHANGED historyOthers

NextHistory == SaveAnalysis \/ SaveAnalysisFails \/ ClearHistory

SpecHistory == InitHistory /\ [][NextHistory]_vars

----------------------------------------------------------------------------
(* Properties                                                              *)

Returned == pc \in {"analyzed", "detected", "reported", "ai_scored"}

\* number of findings of a type in the list returned by detect_mistakes
CountType(type) ==
    Cardinality({i \in 1..Len(mistakes) : mistakes[i].type = type})

FindingTypes == {"NESTED_LOOPS", "TOO_MANY_CONDITIONS", "LONG_FUNCTION",
                 "UNUSED_VARIABLE", "DEEP_INDENTATION", "MAGIC_NUMBERS"}

\* C1: every record returned by analyze_code (python, c or cpp, any lines)
\* has nested_loops <= loops, and max_nesting_depth >= 2 whenever
\* nested_loops > 0.
C1_NestedBounds ==
    Returned =>
        /\ metrics.nested_loops <= metrics.loops
        /\ metrics.nested_loops > 0 => metrics.max_nesting_depth >= 2

\* C1 witness: a C record with a nested loop has been returned
C1_Witness ==
    /\ pc = "analyzed"
    /\ language = "c"
    /\ metrics.nested_loops > 0
    /\ metrics.nested_loops < metrics.loops

\* The reading of C2: line k lies inside the indented block of an earlier
\* loop line j whose block has not ended, i.e. every line after j up to k is
\* indented deeper than j.
IsLoopLine(line) ==
    /\ ~StartsWith(Strip(line), <<"d", "e", "f", " ">>)
    /\ has_loop_keyword(line)

InsideOpenLoop(lines, k) ==
    \E j \in 1..(k - 1) :
        /\ IsLoopLine(lines[j])
        /\ \A m \in (j + 1)..k :
              LeadingSpaces(lines[m]) > LeadingSpaces(lines[j])

TrulyNestedLoops(lines) ==
    {k \in 1..Len(lines) : IsLoopLine(lines[k]) /\ InsideOpenLoop(lines, k)}

\* C2: for python input, nested_loops counts exactly the loop lines that lie
\* inside the still-open indented block of an earlier loop; loops that follow
\* one another at the same indentation give nested_loops = 0 and O(n).
C2_NestedIffInsideOpenLoop ==
    (pc = "analyzed" /\ language = "python" /\ code_lines # <<>>) =>
        /\ metrics.nested_loops = Cardinality(TrulyNestedLoops(code_lines))
        /\ (metrics.loops > 0 /\ TrulyNestedLoops(code_lines) = {})
              => metrics.complexity = "O(n)"

\* C3: the complexity label of a returned record is determined by the
\* record's own counts: loops = 0 gives O(1); loops > 0 with nested_loops = 0
\* gives O(n); otherwise the depth is 2, 3 or >= 4 and gives O(n^2), O(n^3),
\* O(2^n).
C3_ComplexityThresholds ==
    Returned =>
        LET m == metrics IN
        /\ m.loops = 0 => m.complexity = "O(1)"
        /\ (m.loops > 0 /\ m.nested_loops = 0) => m.complexity = "O(n)"
        /\ (m.loops > 0 /\ m.nested_loops > 0) =>
              /\ m.max_nesting_depth >= 2
              /\ m.max_nesting_depth = 2 => m.complexity = "O(n^2)"
              /\ m.max_nesting_depth = 3 => m.complexity = "O(n^3)"
              /\ m.max_nesting_depth >= 4 => m.complexity = "O(2^n)"

\* C3 witness: a record with depth >= 4 (the last threshold) was returned
C3_Witness ==
    /\ pc = "analyzed"
    /\ metrics.max_nesting_depth >= 4
    /\ metrics.complexity = "O(2^n)"

HasFinding(type, num) ==
    \E i \in 1..Len(mistakes) :
        mistakes[i].type = type /\ mistakes[i].num = num

\* C4: for C/C++ input holding a for loop nested three deep with an if in the
\* innermost body, analyze_code returns max_nesting_depth = 3 and O(n^3), and
\* detect_mistakes returns a NESTED_LOOPS finding that reports 3 levels.
C4_TripleNestedC ==
    (pc = "detected" /\ language \in {"c", "cpp"}
        /\ code_lines \in CNestScenarios) =>
        /\ metrics.max_nesting_depth = 3
        /\ metrics.complexity = "O(n^3)"
        /\ HasFinding("NESTED_LOOPS", 3)

C6_AtMostOnePerType ==
    pc = "detected" => \A type \in FindingTypes : CountType(type) <= 1

\* C6 (amended): every finding type other than UNUSED_VARIABLE occurs at most
\* once in a returned list; the unused-variable rule appends one finding per
\* flagged candidate line, so UNUSED_VARIABLE occurs at most once per line.
C6_AtMostOneExceptUnused ==
    pc = "detected" =>
        /\ \A type \in FindingTypes \ {"UNUSED_VARIABLE"} : CountType(type) <= 1
        /\ CountType("UNUSED_VARIABLE") <= Len(code_lines)

\* C6 witness: a list with two UNUSED_VARIABLE findings and one finding of
\* each of two other rules
C6_Witness ==
    /\ pc = "detected"
    /\ CountType("UNUSED_VARIABLE") >= 2
    /\ CountType("MAGIC_NUMBERS") = 1
    /\ CountType("NESTED_LOOPS") = 1

\* what a call run alone returns for the arguments of thread t
OwnFindings(t) ==
    detect_mistakes(t_req[t].lines, t_req[t].language, t_req[t].analysis)

\* C7: when two detect_mistakes calls on the shared instance interleave, each
\* call returns exactly the findings of its own input: none of another
\* request's findings, and none of its own missing.
C7_OwnFindingsOnly ==
    \A t \in Threads : t_pc[t] = "done" => heap[t_ret[t]] = OwnFindings(t)

AnyExceeds(sc) ==
    \/ sc.comment_ratio > comment_ratio_threshold
    \/ sc.perfection_score > perfection_score_threshold
    \/ sc.complexity_mismatch > complexity_mismatch_threshold
    \/ sc.pattern_score > pattern_repetition_threshold

ClaimedConfidence(sc) ==
    Max(0, Min(30 * sc.comment_ratio + 30 * sc.perfection_score
               + 25 * sc.complexity_mismatch + 15 * sc.pattern_score,
               ConfidenceOne))

RaisedScores(sc) ==
    {[sc EXCEPT !.comment_ratio = v] :
        v \in {w \in ScoreGrid : w >= sc.comment_ratio}}
    \cup {[sc EXCEPT !.perfection_score = v] :
             v \in {w \in ScoreGrid : w >= sc.perfection_score}}
    \cup {[sc EXCEPT !.complexity_mismatch = v] :
             v \in {w \in ScoreGrid : w >= sc.complexity_mismatch}}
    \cup {[sc EXCEPT !.pattern_score = v] :
             v \in {w \in ScoreGrid : w >= sc.pattern_score}}

\* C10: the returned confidence lies in [0,1], and raising one sub-score with
\* the other three held fixed never lowers the returned confidence.
C10_ConfidenceBoundedMonotonic ==
    ai_pc = "done" =>
        /\ results.confidence >= 0
        /\ results.confidence <= ConfidenceOne
        /\ \A sc \in RaisedScores(scores) :
              detect_ai_patterns(sc, raises).confidence >= results.confidence

\* C10 witness: a result with confidence 0 for sub-scores at their thresholds,
\* where raising one sub-score makes the confidence jump above 0
C10_Witness ==
    /\ ai_pc = "done"
    /\ raises = 0
    /\ scores.comment_ratio = comment_ratio_threshold
    /\ results.confidence = 0
    /\ detect_ai_patterns([scores EXCEPT !.comment_ratio = @ + 1],
                          raises).confidence > 0

\* ordinal of a complexity class as the analyzer labels it
ClassOrdinal(complexity) ==
    CASE complexity = "O(1)"   -> 1
      [] complexity = "O(n)"   -> 2
      [] complexity = "O(n^2)" -> 3
      [] complexity = "O(n^3)" -> 4
      [] complexity = "O(2^n)" -> 5

\* ordinal of the class expected for a skill level
ExpectedOrdinal(skill_level) ==
    CASE skill_level = "beginner"     -> 2
      [] skill_level = "intermediate" -> 3
      [] skill_level = "advanced"     -> 4

\* the mismatch of C11, in three-hundredths
ClaimedMismatch(a, skill_level) ==
    LET ord == ClassOrdinal(a.complexity)
        exp == ExpectedOrdinal(skill_level)
        steps == IF ord > exp + 1 THEN Min((ord - exp) * 100, 300) ELSE 0
        extra == (IF skill_level = "beginner" /\ a.nested_loops > 1
                  THEN 90 ELSE 0)
                 + (IF skill_level = "beginner" /\ a.functions > 2
                    THEN 60 ELSE 0)
    IN  Min(steps + extra, 300)

\* C11: for a metrics record and the skill level of its report, the
\* complexity-mismatch sub-score is min((a - e)/3, 1) when the ordinal a of
\* the record's class exceeds the expected ordinal e by more than one step
\* and 0 otherwise, plus 0.3 for a beginner with nested_loops > 1 and 0.2
\* for a beginner with functions > 2, clamped to 1.0 (so a beginner with a
\* cubic or exponential record gets at least 2/3).
C11_ComplexityMismatch ==
    pc = "ai_scored" =>
        /\ ai_mismatch = ClaimedMismatch(metrics, report.skill_level)
        /\ (report.skill_level = "beginner"
            /\ metrics.complexity \in {"O(n^3)", "O(2^n)"})
           => 3 * ai_mismatch >= 2 * MismatchOne

\* detect_mistakes has returned
Detected == pc \in {"detected", "reported", "ai_scored"}

\* C12: for every metrics record produced by analyze_code on non-empty
\* lines, detect_mistakes returns a NESTED_LOOPS finding iff the record's
\* max_nesting_depth is greater than 2, and the finding's problem text
\* reports that depth.
C12_NestedLoopsRule ==
    (Detected /\ code_lines # <<>>) =>
        /\ CountType("NESTED_LOOPS") > 0 <=> metrics.max_nesting_depth > 2
        /\ \A i \in 1..Len(mistakes) :
              mistakes[i].type = "NESTED_LOOPS"
                  => mistakes[i].num = metrics.max_nesting_depth

\* C12 witness: a record of depth 3 produced by the analyzer, reported as
\* 3 levels
C12_Witness ==
    /\ pc = "detected"
    /\ code_lines # <<>>
    /\ metrics.max_nesting_depth = 3
    /\ HasFinding("NESTED_LOOPS", 3)

\* C13: detect_mistakes is a function of its arguments only: two
\* invocations with identical lines, language and metrics return identical
\* finding lists (same findings, same order, same problem text including
\* the values listed by the MAGIC_NUMBERS finding), whatever preceded them.
C13_SameArgumentsSameFindings ==
    Len(returned_texts) = 2 => returned_texts[1] = returned_texts[2]

\* generate_feedback has returned
Reported == pc \in {"reported", "ai_scored"}

\* penalty 0/0/10/20/30 for O(1)/O(n)/O(n^2)/O(n^3)/O(2^n)
ClaimedPenalty(complexity) == 10 * Max(0, ClassOrdinal(complexity) - 2)

\* 100 - 10*(number of findings) - penalty + 5 if functions > 1
\* + 5 if total_lines < 50
ClaimedSkillPoints ==
    100 - 10 * Len(mistakes) - ClaimedPenalty(metrics.complexity)
        + (IF metrics.functions > 1 THEN 5 ELSE 0)
        + (IF metrics.total_lines < 50 THEN 5 ELSE 0)

\* C14: the skill level written into a report by generate_feedback is
\* derived from 100 - 10*(number of findings) - penalty(complexity)
\* + 5 if functions > 1 + 5 if total_lines < 50: advanced when the result is
\* >= 80, intermediate when it is 60..79, beginner when it is < 60.
C14_SkillLevel ==
    Reported =>
        /\ ClaimedSkillPoints >= 80 => report.skill_level = "advanced"
        /\ ClaimedSkillPoints \in 60..79
               => report.skill_level = "intermediate"
        /\ ClaimedSkillPoints < 60 => report.skill_level = "beginner"

\* C14 witness: a report for a record and findings worth exactly 60 points
C14_Witness ==
    /\ pc = "reported"
    /\ Len(mistakes) > 0
    /\ ClaimedSkillPoints = 60
    /\ report.skill_level = "intermediate"

\* 100 - 5*(number of findings) - penalty + 5 if functions > 1
\* + 5 if total_lines < 50 + 5 if nested_loops = 0
ClaimedRawScore ==
    100 - 5 * Len(mistakes) - ClaimedPenalty(metrics.complexity)
        + (IF metrics.functions > 1 THEN 5 ELSE 0)
        + (IF metrics.total_lines < 50 THEN 5 ELSE 0)
        + (IF metrics.nested_loops = 0 THEN 5 ELSE 0)

ClaimedGrade(score) ==
    CASE score >= 90 -> "A+"
      [] score \in 80..89 -> "A"
      [] score \in 70..79 -> "B"
      [] score \in 60..69 -> "C"
      [] score \in 50..59 -> "D"
      [] score < 50 -> "F"

\* the grades from worst to best
GradeRank(grade) ==
    CASE grade = "F" -> 0 [] grade = "D" -> 1 [] grade = "C" -> 2
      [] grade = "B" -> 3 [] grade = "A" -> 4 [] grade = "A+" -> 5

\* C15: the report score is an integer in [0,100] equal to
\* 100 - 5*(number of findings) - penalty(complexity) + 5 if functions > 1
\* + 5 if total_lines < 50 + 5 if nested_loops = 0, clamped to [0,100]; the
\* grade is A+ for >= 90, A for >= 80, B for >= 70, C for >= 60, D for >= 50
\* and F otherwise, so no lower score has a better grade.
C15_ScoreAndGrade ==
    Reported =>
        /\ report.score.score \in 0..100
        /\ report.score.score = Max(0, Min(100, ClaimedRawScore))
        /\ report.score.grade = ClaimedGrade(report.score.score)
        /\ \A lower \in 0..report.score.score :
              GradeRank(get_grade(lower)) <= GradeRank(report.score.grade)

\* C15 witness: a report whose unclamped score is negative
C15_Witness ==
    /\ pc = "reported"
    /\ ClaimedRawScore < 0
    /\ report.score.score = 0
    /\ report.score.grade = "F"

\* the whitespace-delimited tokens of all lines, in order
RECURSIVE AllTokens(_)
AllTokens(lines) ==
    IF lines = <<>> THEN <<>>
    ELSE Split(Head(lines)) \o AllTokens(Tail(lines))

AllowListed == {<<"0">>, <<"1">>, <<"2">>, <<"1", "0">>, <<"1", "0", "0">>,
                <<"1", "0", "0", "0">>}

\* positions of the tokens that parse as a number and are not allow-listed
OffendingPositions(lines) ==
    LET toks == AllTokens(lines)
    IN  {i \in 1..Len(toks) : is_number(toks[i]) /\ toks[i] \notin AllowListed}

\* all orders in which the elements of a set can be listed
RECURSIVE Orders(_)
Orders(S) ==
    IF S = {} THEN {<<>>}
    ELSE UNION {{<<x>> \o o : o \in Orders(S \ {x})} : x \in S}

\* C16: detect_mistakes returns a MAGIC_NUMBERS finding iff the number of
\* whitespace-delimited tokens that parse as a number and are not one of the
\* allow-listed strings 0, 1, 2, 10, 100, 1000 exceeds 3, repeats counted;
\* input whose numeric tokens are all allow-listed never triggers it; the
\* finding reports that count and lists at most 5 distinct values.
C16_MagicNumbersRule ==
    pc = "detected" =>
        /\ CountType("MAGIC_NUMBERS") > 0
               <=> Cardinality(OffendingPositions(code_lines)) > 3
        /\ OffendingPositions(code_lines) = {}
               => CountType("MAGIC_NUMBERS") = 0
        /\ \A i \in 1..Len(mistakes) :
              mistakes[i].type = "MAGIC_NUMBERS" =>
                 /\ mistakes[i].num = Cardinality(OffendingPositions(code_lines))
                 /\ \A o \in Orders(mistakes[i].unique) :
                       LET shown == problem_text(mistakes[i], o).shown
                       IN  /\ Len(shown) <= 5
                           /\ \A j, k \in 1..Len(shown) :
                                 j # k => shown[j] # shown[k]

\* C16 witness: exactly four distinct offending tokens, reported
C16_Witness ==
    /\ pc = "detected"
    /\ code_lines = <<md_py_magic>>
    /\ Cardinality(OffendingPositions(code_lines)) = 4
    /\ CountType("MAGIC_NUMBERS") = 1

\* leading whitespace count of line n, integer-divided by 4
ClaimedLevel(n) == LeadingSpaces(code_lines[n]) \div 4

NonBlankLines == {n \in 1..Len(code_lines) : Strip(code_lines[n]) # <<>>}

\* C17: detect_mistakes returns a DEEP_INDENTATION finding iff the language
\* is python and the maximum over the non-blank lines of (leading whitespace
\* count integer-divided by 4) is greater than 4: a deepest line with 20
\* leading spaces triggers it, one with 16 does not, and C/C++ input never
\* triggers it.  The finding reports that maximum.
C17_DeepIndentationRule ==
    pc = "detected" =>
        /\ CountType("DEEP_INDENTATION") > 0
               <=> (language = "python"
                    /\ \E n \in NonBlankLines : ClaimedLevel(n) > 4)
        /\ language # "python" => CountType("DEEP_INDENTATION") = 0
        /\ \A i \in 1..Len(mistakes) :
              mistakes[i].type = "DEEP_INDENTATION" =>
                 /\ \E n \in NonBlankLines : ClaimedLevel(n) = mistakes[i].num
                 /\ \A n \in NonBlankLines : ClaimedLevel(n) <= mistakes[i].num

\* C17 witness: Python input whose deepest line has 20 leading spaces, next
\* to a line with 16, reported as 5 levels
C17_Witness ==
    /\ pc = "detected"
    /\ language = "python"
    /\ \E n \in NonBlankLines : LeadingSpaces(code_lines[n]) = 16
    /\ \E n \in NonBlankLines : LeadingSpaces(code_lines[n]) = 20
    /\ \A n \in NonBlankLines : LeadingSpaces(code_lines[n]) <= 20
    /\ HasFinding("DEEP_INDENTATION", 5)

\* every count is 0 and the complexity is O(1)
AllZero(m) ==
    /\ m.total_lines = 0 /\ m.loops = 0 /\ m.nested_loops = 0
    /\ m.conditionals = 0 /\ m.conditions_in_loops = 0 /\ m.functions = 0
    /\ m.variables = 0 /\ m.total_statements = 0 /\ m.max_nesting_depth = 0
    /\ m.complexity = "O(1)"

\* C18: analyze_code on an empty line sequence, for any language, returns a
\* record in which every count is 0, the complexity is O(1) and the error
\* flag is present; the same record is returned when the analysis raises
\* internally; a successful analysis never carries the error flag.
C18_EmptyOrFailedAnalysis ==
    Returned =>
        /\ (code_lines = <<>> \/ raise_at > 0)
               => (AllZero(metrics) /\ metrics.error)
        /\ (code_lines # <<>> /\ raise_at = 0) => ~metrics.error

\* C18 witness: the Python analysis raised at its second line, after the
\* first line had been counted, and the all-zero record was returned
C18_Witness ==
    /\ pc = "analyzed"
    /\ language = "python"
    /\ raise_at = 2
    /\ analysis.total_lines = 1
    /\ analysis.loops = 1
    /\ AllZero(metrics)
    /\ metrics.error

\* C19: if a sub-score computation inside detect_ai_patterns raises, the
\* call returns (the exception is not propagated) the default result:
\* is_suspicious false, confidence 0.0, and empty detected_patterns,
\* explanations and recommendations.
C19_ExceptionGivesDefault ==
    (ai_pc = "done" /\ raises > 0) =>
        /\ ~results.is_suspicious
        /\ results.confidence = 0
        /\ results.detected_patterns = <<>>
        /\ results.explanations = <<>>
        /\ results.recommendations = <<>>

\* C19 witness: the last sub-score computation raised after the first three
\* had returned values above their thresholds
C19_Witness ==
    /\ ai_pc = "done"
    /\ raises = 4
    /\ scores.comment_ratio > comment_ratio_threshold
    /\ scores.perfection_score > perfection_score_threshold
    /\ scores.complexity_mismatch > complexity_mismatch_threshold
    /\ ~results.is_suspicious
    /\ results.explanations = <<>>

\* the request being served has empty code or code longer than 1,048,576
\* characters
BadInput == req.code_len = 0 \/ req.code_len > 1024 * 1024

RECURSIVE ClaimedTokensFrom(_, _, _, _)
ClaimedTokensFrom(code, i, toks, cur) ==
    IF i > Len(code) THEN Flush(toks, cur)
    ELSE IF code[i] \in special_chars
    THEN ClaimedTokensFrom(code, i + 1, Append(Flush(toks, cur), <<code[i]>>),
                           <<>>)
    ELSE IF IsSpace(code[i])
    THEN ClaimedTokensFrom(code, i + 1, Flush(toks, cur), <<>>)
    ELSE ClaimedTokensFrom(code, i + 1, toks, Append(cur, code[i]))

HasQuote(code) == \E i \in 1..Len(code) : code[i] \in {"\"", "'"}

HasCommentMarker(code) ==
    \E i \in 1..(Len(code) - 1) :
        SubSeq(code, i, i + 1) \in {<<"/", "/">>, <<"/", "*">>, <<"*", "/">>}

\* the tokenizer has returned to _analyze_c_cpp
Tokenized == pc = "c_loop"

\* positions of the double quotes of the text
QuotePositions(code) == {i \in 1..Len(code) : code[i] = "\""}

\* C21: for C/C++ text with no quotes and no comment markers the tokenizer
\* returns, in source order, one token per structural symbol and one per
\* maximal run of other non-whitespace characters; and a quote-delimited
\* literal (text with exactly two double quotes, the span from the first
\* to the second) is returned as a single token.
C21_TokenizerOutput ==
    Tokenized =>
        /\ (~HasQuote(combined_code) /\ ~HasCommentMarker(combined_code))
              => tokens = ClaimedTokensFrom(combined_code, 1, <<>>, <<>>)
        /\ \A p, q \in QuotePositions(combined_code) :
              (p < q /\ QuotePositions(combined_code) = {p, q})
                  => \E k \in 1..Len(tokens) :
                        tokens[k] = SubSeq(combined_code, p, q)

\* _analyze_python is about to examine a non-blank line
AtPythonLine ==
    /\ pc = "py_loop"
    /\ idx <= Len(code_lines)
    /\ idx # raise_at
    /\ Strip(code_lines[idx]) # <<>>

\* the stack as the de-indentation loop leaves it for the line at idx
StackAfterPop ==
    pop_blocks(stack, loop_depth, function_depth,
               get_indent_level(code_lines[idx])).stack

\* C22: before the keywords of a Python line at indentation level L are
\* examined, every stack entry >= L has been popped: every entry that
\* remains after the pop phase is strictly less than L.
C22_PopLeavesLowerLevels ==
    AtPythonLine =>
        \A k \in 1..Len(StackAfterPop) :
            StackAfterPop[k] < get_indent_level(code_lines[idx])

\* the python line at idx is examined for conditional keywords and holds one
PyConditionalStep ==
    /\ AtPythonLine
    /\ ~StartsWith(Strip(code_lines[idx]), <<"d", "e", "f", " ">>)
    /\ has_conditional_keyword(code_lines[idx])

\* the C/C++ token at idx is a conditional
CConditionalStep ==
    /\ pc = "c_loop"
    /\ idx <= Len(tokens)
    /\ tokens[idx] \in {kw_if, kw_else}

\* C23: in both paths conditions_in_loops counts exactly the conditionals
\* met while a loop is still open: a python conditional line increments it
\* iff the line is a loop line itself or lies in the still-open block of an
\* earlier loop line, and a C/C++ conditional token increments it iff the
\* loop-depth counter is above 0; a conditional after every loop has ended,
\* or before any loop, leaves it unchanged.
C23_ConditionsInLoops ==
    [][/\ PyConditionalStep =>
             (analysis'.conditions_in_loops =
                 analysis.conditions_in_loops
                 + (IF IsLoopLine(code_lines[idx])
                       \/ InsideOpenLoop(code_lines, idx) THEN 1 ELSE 0))
       /\ CConditionalStep =>
             (analysis'.conditions_in_loops =
                 analysis.conditions_in_loops
                 + (IF loop_depth > 0 THEN 1 ELSE 0))]_vars

\* _analyze_c_cpp is walking the token list (before, between or after its
\* iterations)
WalkingTokens == pc = "c_loop"

\* C24: while _analyze_c_cpp walks a token sequence, also one with more }
\* than { tokens, the loop-depth counter and the function-depth counter are
\* >= 0 in every state.
C24_DepthCountersNonNegative ==
    WalkingTokens => (loop_depth >= 0 /\ function_depth >= 0)

\* the skill level derived from an invocation's own arguments
OwnSkillLevel(t) == determine_skill_level(g_req[t].analysis, g_req[t].mistakes)

\* C25: when two generate_feedback invocations on the shared instance
\* interleave, the skill_level of each returned report, the level its
\* next_steps are chosen for and the level passed to the AI scorer are the
\* ones derived from that invocation's own metrics and findings.
C25_OwnSkillLevel ==
    \A t \in Threads :
        g_pc[t] = "done" =>
            /\ g_out[t].skill_level = OwnSkillLevel(t)
            /\ g_out[t].next_steps = OwnSkillLevel(t)
            /\ g_req[t].code_lines => g_out[t].ai_scorer = OwnSkillLevel(t)

\* C26: _tokenize_c_code terminates on every input, also with an
\* unterminated string literal, an unterminated block comment or a //
\* marker without a following newline: a call that has started returns its
\* token list to _analyze_c_cpp.
C26_TokenizerTerminates == (pc = "c_tokenize") ~> (pc = "c_loop")

\* C26 witness: the tokenizer has returned for a text that holds a //
\* marker and ends inside a block comment that is never closed
C26_Witness ==
    /\ pc = "c_loop"
    /\ tk.in_comment
    /\ Contains(combined_code, tl_line)
    /\ tk.i = Len(combined_code) + 1

\* C27: in every report returned by generate_feedback the numeric score is
\* at least the skill-derivation score of the invocation (100 - 10 per
\* finding - complexity penalty + bonuses, not clamped), so a report with
\* skill_level advanced has score >= 80 (grade A or A+) and a report with
\* grade F has skill_level beginner.
C27_ScoreAtLeastSkillPoints ==
    \A t \in Threads :
        g_pc[t] = "done" =>
            /\ g_out[t].score.score
                  >= skill_points(g_req[t].analysis, g_req[t].mistakes)
            /\ g_out[t].skill_level = "advanced" =>
                  /\ g_out[t].score.score >= 80
                  /\ g_out[t].score.grade \in {"A", "A+"}
            /\ g_out[t].score.grade = "F" =>
                  g_out[t].skill_level = "beginner"

\* C28: in every record returned by analyze_code max_nesting_depth is never
\* 1: it is 0 exactly when nested_loops = 0 (also when loops > 0) and at
\* least 2 otherwise.
C28_DepthNeverOne ==
    Returned =>
        /\ metrics.max_nesting_depth # 1
        /\ metrics.max_nesting_depth = 0 <=> metrics.nested_loops = 0
        /\ metrics.nested_loops # 0 => metrics.max_nesting_depth >= 2

\* C28 witness: a returned record with loops but no nested loop, whose
\* depth is 0
C28_Witness ==
    /\ pc = "analyzed"
    /\ metrics.loops > 1
    /\ metrics.nested_loops = 0
    /\ metrics.max_nesting_depth = 0

\* C29: in every score object returned by _calculate_score the breakdown
\* adds up to the score: score = base - mistakes_penalty -
\* complexity_penalty + bonus_points, with bonus_points >= 0, also when the
\* raw score was clamped at 0 or at 100.
C29_BreakdownAddsUp ==
    Reported =>
        LET b == report.score.breakdown IN
        /\ report.score.score =
              b.base - b.mistakes_penalty - b.complexity_penalty
                  + b.bonus_points
        /\ b.bonus_points >= 0

\* C29 witness: a score clamped at 0 whose penalties exceed the base, so
\* that bonus_points holds more than the three bonuses can grant
C29_Witness ==
    /\ Reported
    /\ report.score.score = 0
    /\ report.score.breakdown.mistakes_penalty
          + report.score.breakdown.complexity_penalty > 115
    /\ report.score.breakdown.bonus_points > 15

\* C30: after any sequence of save_analysis and clear_history calls on one
\* history file, executed one at a time, metadata.total_analyses equals the
\* number of stored analyses and the stored ids are exactly 1..n in
\* insertion order; clear_history returns the store to zero analyses, and
\* the numbering restarts at 1 (the entry a successful save stored is the
\* last one and its id is the number of stored analyses).
C30_HistoryIdsAndCount ==
    LET analyses == history_file.analyses IN
    /\ history_file.total_analyses = Len(analyses)
    /\ \A k \in 1..Len(analyses) : analyses[k].id = k
    /\ history_call.op = "clear" =>
          (analyses = <<>> /\ history_file.total_analyses = 0)
    /\ (history_call.op = "save" /\ history_call.returned) =>
          /\ Len(analyses) = history_call.size_before + 1
          /\ analyses[Len(analyses)].id = Len(analyses)

\* C30 witness: clear_history was called on a store that held several
\* analyses and has left it empty
C30_Witness ==
    /\ history_call.op = "clear"
    /\ history_call.size_before > 2
    /\ history_file.analyses = <<>>
    /\ history_file.total_analyses = 0

====
